---- MODULE Spec2Model ----
(***************************************************************************)
(* Model of the tree structures of git_sim (src/git_sim/tree_structures.py)*)
(* and of the Repository operations that drive them                        *)
(* (src/git_sim/repository.py).                                            *)
(*                                                                         *)
(* Python lists are modelled as sequences.  The code's 0-based indices are *)
(* kept in the names (i, idx, index); At/InsertAt/PopAt/SetAt translate    *)
(* them.  Methods that mutate a node in place are modelled as operators    *)
(* that return the node after the call.                                    *)
(***************************************************************************)
EXTENDS Integers, Sequences, FiniteSets, TLC

VARIABLES
    file_btree,   \* Repository.file_btree: the root node of the BTree
    bt_pre,       \* the B-tree as it was before the last call
    bt_op,        \* the last BTree call: [op, k, v]
    bt_last,      \* per key: value of its latest insert, 0 once deleted
    bt_load,      \* which ordered run of add calls is in progress, and how far
    bt_n          \* number of unordered insert/delete calls made

VARIABLES
    avl_root,     \* AVLTree.root (RoleManager.user_roles)
    avl_pre,      \* the AVL tree as it was before the last call
    avl_op,       \* the last AVLTree call: [op, key, value]
    avl_last,     \* per key: value of its latest insert, 0 once deleted
    avl_asc       \* only inserts were called, each of a key above all before

VARIABLES
    branch_tree,  \* Repository.branch_tree: the root BranchNode
    h_pre,        \* the branch tree as it was before the last call
    h_op,         \* the last BranchNode call: [op, parent, name, ret]
    h_found       \* the last find_branch call: [self, name, result]

VARIABLES
    contributors, \* Repository.contributors: the root ContributorNode or None
    c_pre,        \* the contributor tree as it was before the last call
    c_op,         \* the last ContributorNode call: [op, name, email, role]
    c_count,      \* per name: entries left, counted from the calls made
    c_hist        \* [pure, ins]: the triples inserted, while no delete was called

VARIABLES
    current_branch, \* Repository.current_branch
    branches,       \* Repository.branches: branch name -> head commit (0 is None)
    head,           \* Repository.head (0 is None)
    staging_stack,  \* Repository.staging_stack, top last
    r_op,           \* the last Repository call that returned: [op, name, result]
    r_src           \* branches that were the source of a completed merge
                    \* since they were last created

VARIABLES
    repositories,       \* RepositoryManager.repositories, head first
    current_repository, \* RepositoryManager.current_repository or None
    m_pre,              \* current_repository as it was before the last call
    m_op,               \* the last RepositoryManager call: [op, name, result]
    m_made              \* number of Repository objects constructed

VARIABLES
    pr_map,             \* Repository.pr_map: PR number -> the PullRequest
    pull_requests,      \* Repository.pull_requests: the queue, front first
    pr_counter,         \* Repository.pr_counter
    pr_pre,             \* pr_map as it was before the last call
    pr_op               \* the last pull-request call: [op, id, result]

bt_vars == <<file_btree, bt_pre, bt_op, bt_last, bt_load, bt_n>>
avl_vars == <<avl_root, avl_pre, avl_op, avl_last, avl_asc>>
h_vars == <<branch_tree, h_pre, h_op, h_found>>
c_vars == <<contributors, c_pre, c_op, c_count, c_hist>>
r_vars == <<current_branch, branches, head, staging_stack, r_op, r_src>>
m_vars == <<repositories, current_repository, m_pre, m_op, m_made>>
p_vars == <<pr_map, pull_requests, pr_counter, pr_pre, pr_op>>
vars == <<bt_vars, avl_vars, h_vars, c_vars, r_vars, m_vars, p_vars>>

(***************************************************************************)
(* Bounds                                                                  *)
(***************************************************************************)
NKeys == 7      \* distinct content hashes offered to insert/delete
MaxOps == 2     \* unordered insert/delete calls after an ordered run
Reps == 3       \* times each hash is added in the block-ordered runs
SeqLen == 9     \* length of the run a1, a2, ... of distinct hashes
NEmails == 6    \* distinct user identities offered to the AVL tree
NBranches == 2  \* distinct branch names besides "main"
NNames == 3     \* distinct contributor names
MaxContrib == 4 \* contributors held at once
MaxNodes == 4   \* nodes of a branch tree built with add_child alone
MaxAdds == 1    \* Repository.add calls made beside the branch calls
MaxRepos == 3   \* Repository objects a RepositoryManager constructs
MaxPRs == 2     \* pull requests a repository creates
MaxStaged == 4  \* Repository.add calls made on their own

Keys == 1..NKeys
\* the values (filename, content) a hash is added with
Vals == {1, 2}
AllKeys == 1..(IF SeqLen > NKeys THEN SeqLen ELSE NKeys)

(***************************************************************************)
(* Python list helpers (0-based index i)                                   *)
(***************************************************************************)
At(s, i) == s[i + 1]
InsertAt(s, i, x) == SubSeq(s, 1, i) \o <<x>> \o SubSeq(s, i + 1, Len(s))
PopAt(s, i) == SubSeq(s, 1, i) \o SubSeq(s, i + 2, Len(s))
SetAt(s, i, x) == [s EXCEPT ![i + 1] = x]
Last(s) == s[Len(s)]
Front(s) == SubSeq(s, 1, Len(s) - 1)
SetMin(S) == CHOOSE x \in S : \A y \in S : x <= y
SetMax(S) == CHOOSE x \in S : \A y \in S : x >= y

(***************************************************************************)
(* BTreeNode, BTree                                                        *)
(***************************************************************************)
t == 3

BTreeNode(leaf) == [leaf |-> leaf, keys |-> <<>>, values |-> <<>>, children |-> <<>>]

\* i = 0; while i < len(keys) and k > keys[i]: i += 1
ScanUp(keys, k) ==
    LET S == {j \in 1..Len(keys) : ~(k > keys[j])}
    IN  IF S = {} THEN Len(keys) ELSE SetMin(S) - 1

\* i = len(keys) - 1; while i >= 0 and k < keys[i]: i -= 1
ScanDown(keys, k) ==
    LET S == {j \in 1..Len(keys) : ~(k < keys[j])}
    IN  IF S = {} THEN -1 ELSE SetMax(S) - 1

RECURSIVE BTree_search(_, _)
BTree_search(node, k) ==
    LET i == ScanUp(node.keys, k)
    IN  IF i < Len(node.keys) /\ k = At(node.keys, i) THEN At(node.values, i)
        ELSE IF node.leaf THEN 0
        ELSE BTree_search(At(node.children, i), k)


\* _split_child creating the sibling with BTreeNode's default leaf=True
BTree_split_child_default_leaf(parent, index) ==
    LET child == At(parent.children, index)
        new_child == [leaf |-> TRUE,
                      keys |-> SubSeq(child.keys, t + 1, Len(child.keys)),
                      values |-> SubSeq(child.values, t + 1, Len(child.values)),
                      children |-> IF ~child.leaf
                                   THEN SubSeq(child.children, t + 1, Len(child.children))
                                   ELSE <<>>]
        old_child == [child EXCEPT
                      !.keys = SubSeq(child.keys, 1, t - 1),
                      !.values = SubSeq(child.values, 1, t - 1),
                      !.children = IF ~child.leaf THEN SubSeq(child.children, 1, t)
                                   ELSE child.children]
    IN  [parent EXCEPT
         !.keys = InsertAt(parent.keys, index, At(child.keys, t - 1)),
         !.values = InsertAt(parent.values, index, At(child.values, t - 1)),
         !.children = InsertAt(SetAt(parent.children, index, old_child),
                               index + 1, new_child)]

\* _split_child leaving the median in the child: child.keys[:t]
BTree_split_child_median_kept(parent, index) ==
    LET child == At(parent.children, index)
        new_child == [leaf |-> child.leaf,
                      keys |-> SubSeq(child.keys, t + 1, Len(child.keys)),
                      values |-> SubSeq(child.values, t + 1, Len(child.values)),
                      children |-> IF ~child.leaf
                                   THEN SubSeq(child.children, t + 1, Len(child.children))
                                   ELSE <<>>]
        old_child == [child EXCEPT
                      !.keys = SubSeq(child.keys, 1, t),
                      !.values = SubSeq(child.values, 1, t),
                      !.children = IF ~child.leaf THEN SubSeq(child.children, 1, t)
                                   ELSE child.children]
    IN  [parent EXCEPT
         !.keys = InsertAt(parent.keys, index, At(child.keys, t - 1)),
         !.values = InsertAt(parent.values, index, At(child.values, t - 1)),
         !.children = InsertAt(SetAt(parent.children, index, old_child),
                               index + 1, new_child)]

BTree_split_child(parent, index) ==
    LET child == At(parent.children, index)
        new_child == [leaf |-> child.leaf,
                      keys |-> SubSeq(child.keys, t + 1, Len(child.keys)),
                      values |-> SubSeq(child.values, t + 1, Len(child.values)),
                      children |-> IF ~child.leaf
                                   THEN SubSeq(child.children, t + 1, Len(child.children))
                                   ELSE <<>>]
        old_child == [child EXCEPT
                      !.keys = SubSeq(child.keys, 1, t - 1),
                      !.values = SubSeq(child.values, 1, t - 1),
                      !.children = IF ~child.leaf THEN SubSeq(child.children, 1, t)
                                   ELSE child.children]
    IN  [parent EXCEPT
         !.keys = InsertAt(parent.keys, index, At(child.keys, t - 1)),
         !.values = InsertAt(parent.values, index, At(child.values, t - 1)),
         !.children = InsertAt(SetAt(parent.children, index, old_child),
                               index + 1, new_child)]

\* the fullness test taken one key too late
BTree_is_full_at_2t(node) == Len(node.keys) = 2 * t

\* len(node.keys) == (2 * self.t) - 1
BTree_is_full(node) == Len(node.keys) = (2 * t) - 1

RECURSIVE BTree_insert_non_full(_, _, _)
BTree_insert_non_full(node, k, v) ==
    IF node.leaf
    THEN LET i == ScanDown(node.keys, k)
         IN  [node EXCEPT !.keys = InsertAt(node.keys, i + 1, k),
                          !.values = InsertAt(node.values, i + 1, v)]
    ELSE LET i0 == ScanDown(node.keys, k) + 1
             full == BTree_is_full(At(node.children, i0))
             node1 == IF full THEN BTree_split_child(node, i0) ELSE node
             i == IF full /\ k > At(node1.keys, i0) THEN i0 + 1 ELSE i0
         IN  [node1 EXCEPT !.children =
                 SetAt(node1.children, i,
                       BTree_insert_non_full(At(node1.children, i), k, v))]


\* insert without the split of a full root
BTree_insert_no_root_split(root, k, v) == BTree_insert_non_full(root, k, v)

BTree_insert(root, k, v) ==
    IF BTree_is_full(root)
    THEN LET new_root == [BTreeNode(FALSE) EXCEPT !.children = <<root>>]
         IN  BTree_insert_non_full(BTree_split_child(new_root, 0), k, v)
    ELSE BTree_insert_non_full(root, k, v)

RECURSIVE BTree_insert_non_full_calls(_, _)
\* the nodes _insert_non_full is invoked on while it inserts k below node,
\* each as it is at the moment of the call, outermost first
BTree_insert_non_full_calls(node, k) ==
    <<node>> \o
    (IF node.leaf THEN <<>>
     ELSE LET i0 == ScanDown(node.keys, k) + 1
              full == BTree_is_full(At(node.children, i0))
              node1 == IF full THEN BTree_split_child(node, i0) ELSE node
              i == IF full /\ k > At(node1.keys, i0) THEN i0 + 1 ELSE i0
          IN  BTree_insert_non_full_calls(At(node1.children, i), k))

\* the nodes _insert_non_full is invoked on during insert(k, v)
BTree_insert_calls(root, k) ==
    IF BTree_is_full(root)
    THEN LET new_root == [BTreeNode(FALSE) EXCEPT !.children = <<root>>]
         IN  BTree_insert_non_full_calls(BTree_split_child(new_root, 0), k)
    ELSE BTree_insert_non_full_calls(root, k)


\* _merge that forgets to move the parent's separating key into the child
BTree_merge_drop_separator(node, idx) ==
    LET child == At(node.children, idx)
        sibling == At(node.children, idx + 1)
        merged == [child EXCEPT
                   !.keys = child.keys \o sibling.keys,
                   !.values = child.values \o sibling.values,
                   !.children = IF ~child.leaf
                                THEN child.children \o sibling.children
                                ELSE child.children]
    IN  [node EXCEPT
         !.keys = PopAt(node.keys, idx),
         !.values = PopAt(node.values, idx),
         !.children = PopAt(SetAt(node.children, idx, merged), idx + 1)]

BTree_merge(node, idx) ==
    LET child == At(node.children, idx)
        sibling == At(node.children, idx + 1)
        merged == [child EXCEPT
                   !.keys = Append(child.keys, At(node.keys, idx)) \o sibling.keys,
                   !.values = Append(child.values, At(node.values, idx)) \o sibling.values,
                   !.children = IF ~child.leaf
                                THEN child.children \o sibling.children
                                ELSE child.children]
    IN  [node EXCEPT
         !.keys = PopAt(node.keys, idx),
         !.values = PopAt(node.values, idx),
         !.children = PopAt(SetAt(node.children, idx, merged), idx + 1)]

\* _borrow_from_prev that moves the sibling's key up but gives the child none
BTree_borrow_from_prev_child_untouched(node, idx) ==
    LET sibling == At(node.children, idx - 1)
        sibling1 == [sibling EXCEPT
                     !.keys = Front(sibling.keys),
                     !.values = Front(sibling.values)]
    IN  [node EXCEPT
         !.keys = SetAt(node.keys, idx - 1, Last(sibling.keys)),
         !.values = SetAt(node.values, idx - 1, Last(sibling.values)),
         !.children = SetAt(node.children, idx - 1, sibling1)]

BTree_borrow_from_prev(node, idx) ==
    LET child == At(node.children, idx)
        sibling == At(node.children, idx - 1)
        child1 == [child EXCEPT
                   !.keys = InsertAt(child.keys, 0, At(node.keys, idx - 1)),
                   !.values = InsertAt(child.values, 0, At(node.values, idx - 1)),
                   !.children = IF ~child.leaf
                                THEN InsertAt(child.children, 0, Last(sibling.children))
                                ELSE child.children]
        sibling1 == [sibling EXCEPT
                     !.keys = Front(sibling.keys),
                     !.values = Front(sibling.values),
                     !.children = IF ~child.leaf THEN Front(sibling.children)
                                  ELSE sibling.children]
    IN  [node EXCEPT
         !.keys = SetAt(node.keys, idx - 1, Last(sibling.keys)),
         !.values = SetAt(node.values, idx - 1, Last(sibling.values)),
         !.children = SetAt(SetAt(node.children, idx, child1), idx - 1, sibling1)]


\* _borrow_from_next that moves the sibling's last key up (pop() for pop(0))
BTree_borrow_from_next_last_key(node, idx) ==
    LET child == At(node.children, idx)
        sibling == At(node.children, idx + 1)
        child1 == [child EXCEPT
                   !.keys = Append(child.keys, At(node.keys, idx)),
                   !.values = Append(child.values, At(node.values, idx)),
                   !.children = IF ~child.leaf
                                THEN Append(child.children, Head(sibling.children))
                                ELSE child.children]
        sibling1 == [sibling EXCEPT
                     !.keys = Front(sibling.keys),
                     !.values = Front(sibling.values),
                     !.children = IF ~child.leaf THEN Tail(sibling.children)
                                  ELSE sibling.children]
    IN  [node EXCEPT
         !.keys = SetAt(node.keys, idx, Last(sibling.keys)),
         !.values = SetAt(node.values, idx, Last(sibling.values)),
         !.children = SetAt(SetAt(node.children, idx, child1), idx + 1, sibling1)]

BTree_borrow_from_next(node, idx) ==
    LET child == At(node.children, idx)
        sibling == At(node.children, idx + 1)
        child1 == [child EXCEPT
                   !.keys = Append(child.keys, At(node.keys, idx)),
                   !.values = Append(child.values, At(node.values, idx)),
                   !.children = IF ~child.leaf
                                THEN Append(child.children, Head(sibling.children))
                                ELSE child.children]
        sibling1 == [sibling EXCEPT
                     !.keys = Tail(sibling.keys),
                     !.values = Tail(sibling.values),
                     !.children = IF ~child.leaf THEN Tail(sibling.children)
                                  ELSE sibling.children]
    IN  [node EXCEPT
         !.keys = SetAt(node.keys, idx, Head(sibling.keys)),
         !.values = SetAt(node.values, idx, Head(sibling.values)),
         !.children = SetAt(SetAt(node.children, idx, child1), idx + 1, sibling1)]


\* _fill that never borrows and always merges
BTree_fill_always_merge(node, idx) ==
    IF idx # Len(node.children) - 1
    THEN BTree_merge(node, idx)
    ELSE BTree_merge(node, idx - 1)

BTree_fill(node, idx) ==
    IF idx # 0 /\ Len(At(node.children, idx - 1).keys) >= t
    THEN BTree_borrow_from_prev(node, idx)
    ELSE IF idx # Len(node.children) - 1 /\ Len(At(node.children, idx + 1).keys) >= t
    THEN BTree_borrow_from_next(node, idx)
    ELSE IF idx # Len(node.children) - 1
    THEN BTree_merge(node, idx)
    ELSE BTree_merge(node, idx - 1)

RECURSIVE RightmostLeaf(_)
RightmostLeaf(curr) == IF curr.leaf THEN curr ELSE RightmostLeaf(Last(curr.children))

RECURSIVE LeftmostLeaf(_)
LeftmostLeaf(curr) == IF curr.leaf THEN curr ELSE LeftmostLeaf(Head(curr.children))

BTree_get_pred(node, idx) ==
    LET curr == RightmostLeaf(At(node.children, idx))
    IN  <<Last(curr.keys), Last(curr.values)>>

BTree_get_succ(node, idx) ==
    LET curr == LeftmostLeaf(At(node.children, idx + 1))
    IN  <<Head(curr.keys), Head(curr.values)>>

RECURSIVE BTree__delete(_, _)
RECURSIVE BTree_delete_internal_node(_, _, _)

BTree__delete(node, k) ==
    LET i == ScanUp(node.keys, k)
    IN  IF i < Len(node.keys) /\ k = At(node.keys, i)
        THEN IF node.leaf
             THEN [node EXCEPT !.keys = PopAt(node.keys, i),
                               !.values = PopAt(node.values, i)]
             ELSE BTree_delete_internal_node(node, k, i)
        ELSE IF node.leaf
             THEN node
             ELSE LET flag == (i = Len(node.keys))
                      node1 == IF Len(At(node.children, i).keys) < t
                               THEN BTree_fill(node, i) ELSE node
                      j == IF flag /\ i > Len(node1.keys) THEN i - 1 ELSE i
                  IN  [node1 EXCEPT !.children =
                          SetAt(node1.children, j,
                                BTree__delete(At(node1.children, j), k))]

BTree_delete_internal_node(node, k, idx) ==
    IF Len(At(node.children, idx).keys) >= t
    THEN LET pred == BTree_get_pred(node, idx)
         IN  [node EXCEPT
              !.keys = SetAt(node.keys, idx, pred[1]),
              !.values = SetAt(node.values, idx, pred[2]),
              !.children = SetAt(node.children, idx,
                                 BTree__delete(At(node.children, idx), pred[1]))]
    ELSE IF Len(At(node.children, idx + 1).keys) >= t
    THEN LET succ == BTree_get_succ(node, idx)
         IN  [node EXCEPT
              !.keys = SetAt(node.keys, idx, succ[1]),
              !.values = SetAt(node.values, idx, succ[2]),
              !.children = SetAt(node.children, idx + 1,
                                 BTree__delete(At(node.children, idx + 1), succ[1]))]
    ELSE LET node1 == BTree_merge(node, idx)
         IN  [node1 EXCEPT !.children =
                 SetAt(node1.children, idx,
                       BTree__delete(At(node1.children, idx), k))]

\* delete that keeps the root whatever _delete left of it
BTree_delete_keeps_root(root, k) == BTree__delete(root, k)

BTree_delete(root, k) ==
    LET root1 == BTree__delete(root, k)
    IN  IF Len(root1.keys) = 0 /\ ~root1.leaf
        THEN At(root1.children, 0)
        ELSE root1

RECURSIVE BTree__delete_calls(_, _)
RECURSIVE BTree_delete_internal_node_calls(_, _, _)

\* the nodes _delete is called on recursively while it deletes k below
\* node, each as it is at the moment of the call, outermost first
BTree__delete_calls(node, k) ==
    LET i == ScanUp(node.keys, k)
    IN  IF i < Len(node.keys) /\ k = At(node.keys, i)
        THEN IF node.leaf
             THEN <<>>
             ELSE BTree_delete_internal_node_calls(node, k, i)
        ELSE IF node.leaf
             THEN <<>>
             ELSE LET flag == (i = Len(node.keys))
                      node1 == IF Len(At(node.children, i).keys) < t
                               THEN BTree_fill(node, i) ELSE node
                      j == IF flag /\ i > Len(node1.keys) THEN i - 1 ELSE i
                  IN  <<At(node1.children, j)>>
                      \o BTree__delete_calls(At(node1.children, j), k)

BTree_delete_internal_node_calls(node, k, idx) ==
    IF Len(At(node.children, idx).keys) >= t
    THEN LET pred == BTree_get_pred(node, idx)
         IN  <<At(node.children, idx)>>
             \o BTree__delete_calls(At(node.children, idx), pred[1])
    ELSE IF Len(At(node.children, idx + 1).keys) >= t
    THEN LET succ == BTree_get_succ(node, idx)
         IN  <<At(node.children, idx + 1)>>
             \o BTree__delete_calls(At(node.children, idx + 1), succ[1])
    ELSE LET node1 == BTree_merge(node, idx)
         IN  <<At(node1.children, idx)>>
             \o BTree__delete_calls(At(node1.children, idx), k)

RECURSIVE BTree_traverse_preorder(_, _)
RECURSIVE PreorderKeys(_, _, _)
\* for i, key in enumerate(node.keys): append; recurse into children[i]
PreorderKeys(node, level, i) ==
    IF i >= Len(node.keys) THEN <<>>
    ELSE <<<<At(node.keys, i), At(node.values, i), level>>>>
         \o (IF ~node.leaf /\ i < Len(node.children)
             THEN BTree_traverse_preorder(At(node.children, i), level + 1)
             ELSE <<>>)
         \o PreorderKeys(node, level, i + 1)

BTree_traverse_preorder(node, level) ==
    PreorderKeys(node, level, 0)
    \o (IF ~node.leaf /\ Len(node.children) > Len(node.keys)
        THEN BTree_traverse_preorder(Last(node.children), level + 1)
        ELSE <<>>)

(***************************************************************************)
(* AVLNode, AVLTree                                                        *)
(***************************************************************************)
None == [none |-> TRUE]
IsNone(node) == "none" \in DOMAIN node

\* a node constructed with height 0
AVLNode_height_zero(key, value) ==
    [key |-> key, value |-> value, height |-> 0, left |-> None, right |-> None]

AVLNode(key, value) ==
    [key |-> key, value |-> value, height |-> 1, left |-> None, right |-> None]

Max2(a, b) == IF a >= b THEN a ELSE b

AVL_height(node) == IF IsNone(node) THEN 0 ELSE node.height

AVLNode_get_balance(self) ==
    LET left_height == IF IsNone(self.left) THEN 0 ELSE self.left.height
        right_height == IF IsNone(self.right) THEN 0 ELSE self.right.height
    IN  left_height - right_height

\* a right rotation that leaves the subtree as it is
AVL_right_rotate_skipped(y) == y

AVL_right_rotate(y) ==
    LET x == y.left
        T2 == x.right
        y1 == [y EXCEPT !.left = T2,
                        !.height = Max2(AVL_height(T2), AVL_height(y.right)) + 1]
    IN  [x EXCEPT !.right = y1,
                  !.height = Max2(AVL_height(x.left), AVL_height(y1)) + 1]

\* a left rotation that recomputes y's height before x's
AVL_left_rotate_heights_swapped(x) ==
    LET y == x.right
        T2 == y.left
        yh == Max2(AVL_height(x), AVL_height(y.right)) + 1
        x1 == [x EXCEPT !.right = T2,
                        !.height = Max2(AVL_height(x.left), AVL_height(T2)) + 1]
    IN  [y EXCEPT !.left = x1, !.height = yh]

AVL_left_rotate(x) ==
    LET y == x.right
        T2 == y.left
        x1 == [x EXCEPT !.right = T2,
                        !.height = Max2(AVL_height(x.left), AVL_height(T2)) + 1]
    IN  [y EXCEPT !.left = x1,
                  !.height = Max2(AVL_height(x1), AVL_height(y.right)) + 1]


\* _insert without the Left-Right and Right-Left cases
AVL_insert_rebalance_single_only(node0, key) ==
    LET node == [node0 EXCEPT !.height =
                     1 + Max2(AVL_height(node0.left), AVL_height(node0.right))]
        balance == AVLNode_get_balance(node)
    IN  IF balance > 1 /\ key < node.left.key THEN AVL_right_rotate(node)
        ELSE IF balance < -1 /\ key > node.right.key THEN AVL_left_rotate(node)
        ELSE node

\* steps 2-4 of _insert: update the height, then apply the matching rotation
AVL_insert_rebalance(node0, key) ==
    LET node == [node0 EXCEPT !.height =
                     1 + Max2(AVL_height(node0.left), AVL_height(node0.right))]
        balance == AVLNode_get_balance(node)
    IN  IF balance > 1 /\ key < node.left.key THEN AVL_right_rotate(node)
        ELSE IF balance < -1 /\ key > node.right.key THEN AVL_left_rotate(node)
        ELSE IF balance > 1 /\ key > node.left.key
        THEN AVL_right_rotate([node EXCEPT !.left = AVL_left_rotate(node.left)])
        ELSE IF balance < -1 /\ key < node.right.key
        THEN AVL_left_rotate([node EXCEPT !.right = AVL_right_rotate(node.right)])
        ELSE node

\* an overwrite that builds the node anew
AVL_insert_existing_as_new(node, value) ==
    [node EXCEPT !.value = value, !.height = 1]

\* the key already exists: the value is updated and the node returned
AVL_insert_existing(node, value) == [node EXCEPT !.value = value]

RECURSIVE AVL__insert(_, _, _)
AVL__insert(node, key, value) ==
    IF IsNone(node) THEN AVLNode(key, value)
    ELSE IF key < node.key
    THEN AVL_insert_rebalance(
             [node EXCEPT !.left = AVL__insert(node.left, key, value)], key)
    ELSE IF key > node.key
    THEN AVL_insert_rebalance(
             [node EXCEPT !.right = AVL__insert(node.right, key, value)], key)
    ELSE AVL_insert_existing(node, value)

AVL_insert(root, key, value) == AVL__insert(root, key, value)

AVL_get_balance(node) == IF IsNone(node) THEN 0 ELSE AVLNode_get_balance(node)

\* the successor taken to be the right child itself
AVL_get_min_value_node_no_descent(node) == node

RECURSIVE AVL_get_min_value_node(_)
AVL_get_min_value_node(node) ==
    IF ~IsNone(node.left) THEN AVL_get_min_value_node(node.left) ELSE node

\* _delete rotating as soon as one side is higher than the other
AVL_delete_rebalance_eager(node0) ==
    LET node == [node0 EXCEPT !.height =
                     1 + Max2(AVL_height(node0.left), AVL_height(node0.right))]
        balance == AVLNode_get_balance(node)
    IN  IF balance > 0 THEN AVL_right_rotate(node)
        ELSE IF balance < 0 THEN AVL_left_rotate(node)
        ELSE node

\* steps 2-4 of _delete: update the height, then apply the matching rotation
AVL_delete_rebalance(node0) ==
    LET node == [node0 EXCEPT !.height =
                     1 + Max2(AVL_height(node0.left), AVL_height(node0.right))]
        balance == AVLNode_get_balance(node)
    IN  IF balance > 1 /\ AVL_get_balance(node.left) >= 0 THEN AVL_right_rotate(node)
        ELSE IF balance > 1 /\ AVL_get_balance(node.left) < 0
        THEN AVL_right_rotate([node EXCEPT !.left = AVL_left_rotate(node.left)])
        ELSE IF balance < -1 /\ AVL_get_balance(node.right) <= 0
        THEN AVL_left_rotate(node)
        ELSE IF balance < -1 /\ AVL_get_balance(node.right) > 0
        THEN AVL_left_rotate([node EXCEPT !.right = AVL_right_rotate(node.right)])
        ELSE node

RECURSIVE AVL__delete(_, _)
AVL__delete(node, key) ==
    IF IsNone(node) THEN node
    ELSE IF key < node.key
    THEN AVL_delete_rebalance([node EXCEPT !.left = AVL__delete(node.left, key)])
    ELSE IF key > node.key
    THEN AVL_delete_rebalance([node EXCEPT !.right = AVL__delete(node.right, key)])
    ELSE IF IsNone(node.left) THEN node.right
    ELSE IF IsNone(node.right) THEN node.left
    ELSE LET temp == AVL_get_min_value_node(node.right)
         IN  AVL_delete_rebalance(
                 [node EXCEPT !.key = temp.key,
                              !.value = temp.value,
                              !.right = AVL__delete(node.right, temp.key)])

AVL_delete(root, key) == AVL__delete(root, key)

RECURSIVE AVL__search(_, _)
\* returns the node found, or None
AVL__search(node, key) ==
    IF IsNone(node) THEN node
    ELSE IF node.key = key THEN node
    ELSE IF key < node.key THEN AVL__search(node.left, key)
    ELSE AVL__search(node.right, key)

\* search that looks at the root only
AVL_search_root_only(root, key) ==
    IF IsNone(root) THEN root ELSE IF root.key = key THEN root ELSE None

AVL_search(root, key) == AVL__search(root, key)

RECURSIVE AVL_traverse_postorder(_)
AVL_traverse_postorder(node) ==
    IF IsNone(node) THEN <<>>
    ELSE AVL_traverse_postorder(node.left) \o AVL_traverse_postorder(node.right)
         \o <<<<node.key, node.value>>>>

(***************************************************************************)
(* The AVL tree under insert and delete calls                              *)
(***************************************************************************)
Emails == 1..NEmails
\* the role names assigned
Roles == {1, 2}

RECURSIVE AVLKeys(_)
AVLKeys(node) ==
    IF IsNone(node) THEN {}
    ELSE {node.key} \cup AVLKeys(node.left) \cup AVLKeys(node.right)

AVLInit ==
    /\ avl_root = None
    /\ avl_pre = None
    /\ avl_op = [op |-> "none", key |-> 0, value |-> 0]
    /\ avl_last = [key \in Emails |-> 0]
    /\ avl_asc = TRUE

AVLInsert(key, value) ==
    /\ avl_root' = AVL_insert(avl_root, key, value)
    /\ avl_pre' = avl_root
    /\ avl_op' = [op |-> "insert", key |-> key, value |-> value]
    /\ avl_last' = [avl_last EXCEPT ![key] = value]
    /\ avl_asc' = (avl_asc /\ \A k \in AVLKeys(avl_root) : k < key)
    /\ UNCHANGED <<p_vars, m_vars, bt_vars, h_vars, c_vars, r_vars>>

AVLDelete(key) ==
    /\ avl_root' = AVL_delete(avl_root, key)
    /\ avl_pre' = avl_root
    /\ avl_op' = [op |-> "delete", key |-> key, value |-> 0]
    /\ avl_last' = [avl_last EXCEPT ![key] = 0]
    /\ avl_asc' = FALSE
    /\ UNCHANGED <<p_vars, m_vars, bt_vars, h_vars, c_vars, r_vars>>

NextAVL ==
    \/ \E key \in Emails, value \in Roles : AVLInsert(key, value)
    \/ \E key \in Emails : AVLDelete(key)


(***************************************************************************)
(* BranchNode                                                              *)
(***************************************************************************)
\* a node that is created already marked as merged
BranchNode_born_merged(name, parent) ==
    [name |-> name, parent |-> parent, merged |-> TRUE, children |-> <<>>]

\* parent is the non-owning back-reference, kept as the parent's name;
\* commits, the list add_commit appends to, is read by no Repository
\* method and is left out
BranchNode(name, parent) ==
    [name |-> name, parent |-> parent, merged |-> FALSE, children |-> <<>>]

\* add_child putting the new node in front of the other children
BranchNode_add_child_first(self, child_name) ==
    [self EXCEPT !.children = <<BranchNode(child_name, self.name)>> \o self.children]

BranchNode_add_child(self, child_name) ==
    [self EXCEPT !.children = Append(self.children, BranchNode(child_name, self.name))]


\* remove_child without the merged check
BranchNode_remove_child_no_gate(self, child_name) ==
    LET S == {i \in 1..Len(self.children) : self.children[i].name = child_name}
    IN  IF S = {} THEN [ret |-> FALSE, node |-> self]
        ELSE [ret |-> TRUE,
              node |-> [self EXCEPT !.children = PopAt(self.children, SetMin(S) - 1)]]

\* for i, child in enumerate(self.children): the first child with that name
\* decides; returns the value returned and the node after the call
BranchNode_remove_child(self, child_name) ==
    LET S == {i \in 1..Len(self.children) : self.children[i].name = child_name}
    IN  IF S = {} THEN [ret |-> FALSE, node |-> self]
        ELSE LET i == SetMin(S) - 1
             IN  IF At(self.children, i).merged
                 THEN [ret |-> TRUE,
                       node |-> [self EXCEPT !.children = PopAt(self.children, i)]]
                 ELSE [ret |-> FALSE, node |-> self]

RECURSIVE FindPath(_, _)
RECURSIVE FindPathIn(_, _, _)
\* depth-first search, the node first, then its children in list order;
\* the result is the list of child indices leading to the node found
FindPath(self, branch_name) ==
    IF self.name = branch_name THEN [found |-> TRUE, path |-> <<>>]
    ELSE FindPathIn(self, branch_name, 0)

\* the loop over self.children, from child number i on
FindPathIn(self, branch_name, i) ==
    IF i >= Len(self.children) THEN [found |-> FALSE, path |-> <<>>]
    ELSE LET result == FindPath(At(self.children, i), branch_name)
         IN  IF result.found
             THEN [found |-> TRUE, path |-> <<i>> \o result.path]
             ELSE FindPathIn(self, branch_name, i + 1)

RECURSIVE NodeAt(_, _)
NodeAt(node, path) ==
    IF path = <<>> THEN node ELSE NodeAt(At(node.children, Head(path)), Tail(path))

RECURSIVE ReplaceAt(_, _, _)
\* the tree after the node at path has been mutated into new
ReplaceAt(node, path, new) ==
    IF path = <<>> THEN new
    ELSE [node EXCEPT !.children =
             SetAt(node.children, Head(path),
                   ReplaceAt(At(node.children, Head(path)), Tail(path), new))]

\* find_branch that looks at the node and its direct children only
BranchNode_find_branch_no_descent(self, branch_name) ==
    LET S == {i \in 1..Len(self.children) : self.children[i].name = branch_name}
    IN  IF self.name = branch_name THEN self
        ELSE IF S = {} THEN None
        ELSE self.children[SetMin(S)]

BranchNode_find_branch(self, branch_name) ==
    LET result == FindPath(self, branch_name)
    IN  IF result.found THEN NodeAt(self, result.path) ELSE None

(***************************************************************************)
(* The branch hierarchy under the calls the repository makes on it         *)
(***************************************************************************)
NameSeq == <<"feature", "develop", "hotfix", "release", "docs", "test">>
BranchNames == {"main"} \cup {NameSeq[i] : i \in 1..NBranches}

RECURSIVE NamesIn(_)
NamesIn(node) ==
    {node.name} \cup UNION {NamesIn(node.children[j]) : j \in 1..Len(node.children)}

HInit ==
    /\ branch_tree = BranchNode("main", "")
    /\ h_pre = BranchNode("main", "")
    /\ h_op = [op |-> "none", parent |-> "", name |-> "", ret |-> FALSE]
    /\ h_found = [self |-> None, name |-> "", result |-> None]

\* Repository.branch: a new branch under the node found for the current
\* branch, unless find_branch finds the name anywhere in the tree
HBranch(cur, name) ==
    LET current == FindPath(branch_tree, cur)
    IN  /\ current.found
        /\ IsNone(BranchNode_find_branch(branch_tree, name))
        /\ branch_tree' = ReplaceAt(branch_tree, current.path,
               BranchNode_add_child(NodeAt(branch_tree, current.path), name))
        /\ h_pre' = branch_tree
        /\ h_op' = [op |-> "add_child", parent |-> cur,
                    name |-> name, ret |-> TRUE]
        /\ UNCHANGED <<p_vars, m_vars, h_found, bt_vars, avl_vars, c_vars, r_vars>>

\* Repository.merge, its effect on the tree: the source branch's node, if
\* found, is marked merged
HMarkMerged(source_branch) ==
    LET source == FindPath(branch_tree, source_branch)
    IN  /\ source.found
        /\ branch_tree' = ReplaceAt(branch_tree, source.path,
               [NodeAt(branch_tree, source.path) EXCEPT !.merged = TRUE])
        /\ h_pre' = branch_tree
        /\ h_op' = [op |-> "merged", parent |-> "", name |-> source_branch,
                    ret |-> TRUE]
        /\ UNCHANGED <<p_vars, m_vars, h_found, bt_vars, avl_vars, c_vars, r_vars>>

\* parent.remove_child(name) on the node found for parent
HRemoveChild(parent, name) ==
    LET p == FindPath(branch_tree, parent)
        r == BranchNode_remove_child(NodeAt(branch_tree, p.path), name)
    IN  /\ p.found
        /\ branch_tree' = ReplaceAt(branch_tree, p.path, r.node)
        /\ h_pre' = branch_tree
        /\ h_op' = [op |-> "remove_child", parent |-> parent,
                    name |-> name, ret |-> r.ret]
        /\ UNCHANGED <<p_vars, m_vars, h_found, bt_vars, avl_vars, c_vars, r_vars>>

NextHier ==
    \/ \E c \in BranchNames, name \in BranchNames : HBranch(c, name)
    \/ \E name \in BranchNames : HMarkMerged(name)
    \/ \E parent \in BranchNames, name \in BranchNames : HRemoveChild(parent, name)


(***************************************************************************)
(* BranchNode used directly: add_child on any node, find_branch from any   *)
(* node.  add_child itself accepts any name, so names may repeat here.     *)
(***************************************************************************)
RECURSIVE PathsOf(_)
\* the paths (child indices from the root) of all nodes of a tree
PathsOf(node) ==
    {<<>>} \cup UNION {{<<j - 1>> \o p : p \in PathsOf(node.children[j])} :
                       j \in 1..Len(node.children)}

\* find_branch changes nothing, so the tree is built before it is queried
NAddChild(path, child_name) ==
    /\ IsNone(h_found.self)
    /\ Cardinality(PathsOf(branch_tree)) < MaxNodes
    /\ branch_tree' = ReplaceAt(branch_tree, path,
           BranchNode_add_child(NodeAt(branch_tree, path), child_name))
    /\ h_pre' = branch_tree
    /\ h_op' = [op |-> "add_child", parent |-> NodeAt(branch_tree, path).name,
                name |-> child_name, ret |-> TRUE]
    /\ UNCHANGED <<p_vars, m_vars, h_found, bt_vars, avl_vars, c_vars, r_vars>>

NFindBranch(path, branch_name) ==
    /\ h_found' = [self |-> NodeAt(branch_tree, path), name |-> branch_name,
                   result |-> BranchNode_find_branch(NodeAt(branch_tree, path),
                                                     branch_name)]
    /\ UNCHANGED <<p_vars, m_vars, branch_tree, h_pre, h_op, bt_vars, avl_vars, c_vars, r_vars>>

NextNode ==
    \/ \E path \in PathsOf(branch_tree), name \in BranchNames : NAddChild(path, name)
    \/ \E path \in PathsOf(branch_tree), name \in BranchNames : NFindBranch(path, name)


(***************************************************************************)
(* ContributorNode: the contributors' binary search tree                   *)
(***************************************************************************)
ContributorNode(name, email, role) ==
    [name |-> name, email |-> email, role |-> role,
     left |-> None, right |-> None]

\* insert with equal names sent to the left subtree
ContributorNode_insert_goes_left_ties(self, name) == name <= self.name

\* the test of insert: does the new name go to the left subtree
ContributorNode_insert_goes_left(self, name) == name < self.name

RECURSIVE ContributorNode_insert(_, _, _, _)
ContributorNode_insert(self, name, email, role) ==
    IF ContributorNode_insert_goes_left(self, name)
    THEN IF IsNone(self.left)
         THEN [self EXCEPT !.left = ContributorNode(name, email, role)]
         ELSE [self EXCEPT !.left =
                   ContributorNode_insert(self.left, name, email, role)]
    ELSE IF IsNone(self.right)
         THEN [self EXCEPT !.right = ContributorNode(name, email, role)]
         ELSE [self EXCEPT !.right =
                   ContributorNode_insert(self.right, name, email, role)]

RECURSIVE ContributorNode_find(_, _)
ContributorNode_find(self, name) ==
    IF self.name = name THEN self
    ELSE IF name < self.name /\ ~IsNone(self.left)
         THEN ContributorNode_find(self.left, name)
    ELSE IF name > self.name /\ ~IsNone(self.right)
         THEN ContributorNode_find(self.right, name)
    ELSE None

RECURSIVE ContributorNode_get_all_contributors(_)
ContributorNode_get_all_contributors(self) ==
    <<<<self.name, self.email, self.role>>>>
    \o (IF IsNone(self.left) THEN <<>>
        ELSE ContributorNode_get_all_contributors(self.left))
    \o (IF IsNone(self.right) THEN <<>>
        ELSE ContributorNode_get_all_contributors(self.right))

RECURSIVE ContributorNode_get_min_value_node(_)
ContributorNode_get_min_value_node(self) ==
    IF IsNone(self.left) THEN self
    ELSE ContributorNode_get_min_value_node(self.left)

\* the two-children case copying the successor's name only
ContributorNode_copy_successor_name_only(self, successor) ==
    [self EXCEPT !.name = successor.name]

\* the two-children case of delete: the node takes the successor's data
ContributorNode_copy_successor(self, successor) ==
    [self EXCEPT !.name = successor.name, !.email = successor.email,
                 !.role = successor.role]

\* delete that gives up the node where the search for the name ends
ContributorNode_delete_not_found_drops(self) == None

\* the search for the name ends at a missing child: nothing is assigned and
\* delete falls through to "return self"
ContributorNode_delete_not_found(self) == self

RECURSIVE ContributorNode_delete(_, _)
ContributorNode_delete(self, name) ==
    IF name < self.name
    THEN IF ~IsNone(self.left)
         THEN [self EXCEPT !.left = ContributorNode_delete(self.left, name)]
         ELSE ContributorNode_delete_not_found(self)
    ELSE IF name > self.name
    THEN IF ~IsNone(self.right)
         THEN [self EXCEPT !.right = ContributorNode_delete(self.right, name)]
         ELSE ContributorNode_delete_not_found(self)
    ELSE IF IsNone(self.left) /\ IsNone(self.right) THEN None
    ELSE IF IsNone(self.left) THEN self.right
    ELSE IF IsNone(self.right) THEN self.left
    ELSE LET successor == ContributorNode_get_min_value_node(self.right)
             copied == ContributorNode_copy_successor(self, successor)
         IN  [copied EXCEPT !.right =
                  ContributorNode_delete(self.right, successor.name)]

\* find_contributor looking at the root only
Repository_find_contributor_root_only(root, name) ==
    IF IsNone(root) THEN None
    ELSE IF root.name = name THEN root ELSE None

\* the node that find_contributor reports as (name, email, role)
Repository_find_contributor(root, name) ==
    IF IsNone(root) THEN None ELSE ContributorNode_find(root, name)

\* list_contributors that leaves the role out
Repository_list_contributors_no_role(root) ==
    IF IsNone(root) THEN <<>>
    ELSE LET all == ContributorNode_get_all_contributors(root)
         IN  [i \in 1..Len(all) |-> <<all[i][1], all[i][2], "guest">>]

Repository_list_contributors(root) ==
    IF IsNone(root) THEN <<>> ELSE ContributorNode_get_all_contributors(root)

\* names are compared as strings; the model orders them as 1 < 2 < ...
Names == 1..NNames
\* the (email, role) a contributor is added with
Profiles == {<<"ana@example.com", "developer">>, <<"ben@example.com", "guest">>}

RECURSIVE CSize(_)
\* number of nodes of a contributor tree
CSize(node) ==
    IF IsNone(node) THEN 0 ELSE 1 + CSize(node.left) + CSize(node.right)

CInit ==
    /\ contributors = None
    /\ c_pre = None
    /\ c_op = [op |-> "none", name |-> 0, email |-> "", role |-> ""]
    /\ c_count = [n \in Names |-> 0]
    /\ c_hist = [pure |-> TRUE, ins |-> <<>>]

\* the index's insert: Repository.add_contributor makes the first
\* contributor the root and calls insert on the root afterwards
CInsert(name, email, role) ==
    /\ CSize(contributors) < MaxContrib
    /\ contributors' = IF IsNone(contributors)
                       THEN ContributorNode(name, email, role)
                       ELSE ContributorNode_insert(contributors, name, email, role)
    /\ c_pre' = contributors
    /\ c_op' = [op |-> "insert", name |-> name, email |-> email, role |-> role]
    /\ c_count' = [c_count EXCEPT ![name] = @ + 1]
    /\ c_hist' = IF c_hist.pure
                 THEN [c_hist EXCEPT !.ins = Append(@, <<name, email, role>>)]
                 ELSE c_hist
    /\ UNCHANGED <<p_vars, m_vars, bt_vars, avl_vars, h_vars, r_vars>>

\* the index's delete: the root is reassigned to what delete returns
CDelete(name) ==
    /\ ~IsNone(contributors)
    /\ contributors' = ContributorNode_delete(contributors, name)
    /\ c_pre' = contributors
    /\ c_op' = [op |-> "delete", name |-> name, email |-> "", role |-> ""]
    /\ c_count' = [c_count EXCEPT ![name] = IF @ > 0 THEN @ - 1 ELSE 0]
    /\ c_hist' = [pure |-> FALSE, ins |-> <<>>]
    /\ UNCHANGED <<p_vars, m_vars, bt_vars, avl_vars, h_vars, r_vars>>

NextContrib ==
    \/ \E name \in Names, p \in Profiles : CInsert(name, p[1], p[2])
    \/ \E name \in Names : CDelete(name)


(***************************************************************************)
(* The B-tree as Repository drives it.  Repository.add calls               *)
(* add_file_to_btree for every staged file, so the same hash may be        *)
(* inserted again; delete_file_from_btree deletes by hash.                 *)
(***************************************************************************)
Orders == {"seq", "asc", "desc"}

LoadLen(ord) == IF ord = "seq" THEN SeqLen ELSE NKeys * Reps

\* the hash added by call number n (0-based) of an ordered run
LoadKey(ord, n) ==
    IF ord = "seq" THEN n + 1
    ELSE IF ord = "asc" THEN (n \div Reps) + 1
    ELSE NKeys - (n \div Reps)

LoadVal(n) == 1 + (n % Cardinality(Vals))

BTInit ==
    /\ file_btree = BTreeNode(TRUE)
    /\ bt_pre = BTreeNode(TRUE)
    /\ bt_op = [op |-> "none", k |-> 0, v |-> 0]
    /\ bt_last = [k \in AllKeys |-> 0]
    /\ bt_load = [ord |-> "none", n |-> 0]
    /\ bt_n = 0

DoInsert(k, v) ==
    /\ file_btree' = BTree_insert(file_btree, k, v)
    /\ bt_pre' = file_btree
    /\ bt_op' = [op |-> "insert", k |-> k, v |-> v]
    /\ bt_last' = [bt_last EXCEPT ![k] = v]

\* Repository.add -> add_file_to_btree, called along an ordered run
BTLoad(ord) ==
    /\ bt_n = 0
    /\ bt_load.ord \in {"none", ord}
    /\ bt_load.n < LoadLen(ord)
    /\ DoInsert(LoadKey(ord, bt_load.n), LoadVal(bt_load.n))
    /\ bt_load' = [ord |-> ord, n |-> bt_load.n + 1]
    /\ UNCHANGED <<p_vars, m_vars, bt_n, avl_vars, h_vars, c_vars, r_vars>>

\* Repository.add -> add_file_to_btree with any hash and value
BTInsert(k, v) ==
    /\ bt_n < MaxOps
    /\ DoInsert(k, v)
    /\ bt_n' = bt_n + 1
    /\ UNCHANGED <<p_vars, m_vars, bt_load, avl_vars, h_vars, c_vars, r_vars>>

\* Repository.delete_file_from_btree
BTDelete(k) ==
    /\ bt_n < MaxOps
    /\ file_btree' = BTree_delete(file_btree, k)
    /\ bt_pre' = file_btree
    /\ bt_op' = [op |-> "delete", k |-> k, v |-> 0]
    /\ bt_last' = [bt_last EXCEPT ![k] = 0]
    /\ bt_n' = bt_n + 1
    /\ UNCHANGED <<p_vars, m_vars, bt_load, avl_vars, h_vars, c_vars, r_vars>>

NextBT ==
    \/ \E ord \in Orders : BTLoad(ord)
    \/ \E k \in Keys, v \in Vals : BTInsert(k, v)
    \/ \E k \in Keys : BTDelete(k)

(***************************************************************************)
(* Repository: branch, checkout, add, commit, merge, delete_branch.        *)
(* A call that raises leaves every field as it was.  Of a commit id the    *)
(* methods only test whether it is None, so None is written 0 and every    *)
(* commit id is written Repository_commit_id.  The file contents of the    *)
(* working directory and of the commits decide no branch of these methods  *)
(* and are left out, and so is the commit list of a BranchNode.            *)
(***************************************************************************)
Files == {"README.md"}
Contents == {1}

\* sha1 digests of distinct contents are distinct
Repository_calculate_file_hash(content) == content

Repository_commit_id == 1

\* paths and contents of the add calls that are made on their own
StageFiles == {"a.txt", "b.txt", "c.txt"}
StageContents == {1, 2}

\* status, checksum and last_commit_id are labels no method here reads
StagedFile(path, content) == [path |-> path, content |-> content]

\* d[k] = v on a dict
DictSet(d, k, v) == [x \in DOMAIN d \cup {k} |-> IF x = k THEN v ELSE d[x]]
\* del d[k]
DictDel(d, k) == [x \in DOMAIN d \ {k} |-> d[x]]

RInit ==
    /\ current_branch = "main"
    /\ branches = [b \in {"main"} |-> 0]
    /\ head = 0
    /\ staging_stack = <<>>
    /\ r_op = [op |-> "none", name |-> "", result |-> "none"]
    /\ r_src = {}

\* branch looking for the name among the current branch's children only
Repository_branch_checks_siblings(tree, cur, hd, brs, name) ==
    LET current == FindPath(tree, cur)
    IN  IF ~current.found
        THEN [result |-> "raise", tree |-> tree, branches |-> brs]
        ELSE IF \E i \in 1..Len(NodeAt(tree, current.path).children) :
                    NodeAt(tree, current.path).children[i].name = name
        THEN [result |-> "raise", tree |-> tree, branches |-> brs]
        ELSE [result |-> "ok",
              tree |-> ReplaceAt(tree, current.path,
                           BranchNode_add_child(NodeAt(tree, current.path), name)),
              branches |-> DictSet(brs, name, hd)]

\* the outcome of branch(name), and the tree and the dict after the call
Repository_branch(tree, cur, hd, brs, name) ==
    LET current == FindPath(tree, cur)
    IN  IF ~current.found
        THEN [result |-> "raise", tree |-> tree, branches |-> brs]
        ELSE IF ~IsNone(BranchNode_find_branch(tree, name))
        THEN [result |-> "raise", tree |-> tree, branches |-> brs]
        ELSE [result |-> "ok",
              tree |-> ReplaceAt(tree, current.path,
                           BranchNode_add_child(NodeAt(tree, current.path), name)),
              branches |-> DictSet(brs, name, hd)]

\* what delete_branch does once none of its checks has raised: the node
\* found at path b is removed through its parent, if it has one
Repository_delete_branch_remove(tree, brs, name, b) ==
    IF b = <<>>
    THEN [result |-> "false", tree |-> tree, branches |-> brs]
    ELSE LET r == BranchNode_remove_child(NodeAt(tree, Front(b)), name)
         IN  IF r.ret
             THEN [result |-> "true",
                   tree |-> ReplaceAt(tree, Front(b), r.node),
                   branches |-> IF name \in DOMAIN brs
                                THEN DictDel(brs, name) ELSE brs]
             ELSE [result |-> "false", tree |-> tree, branches |-> brs]

\* delete_branch without its check of the name "main"
Repository_delete_branch_no_main_check(tree, cur, brs, name) ==
    LET branch_node == FindPath(tree, name)
    IN  IF name = cur
        THEN [result |-> "raise", tree |-> tree, branches |-> brs]
        ELSE IF ~branch_node.found
        THEN [result |-> "raise", tree |-> tree, branches |-> brs]
        ELSE IF ~NodeAt(tree, branch_node.path).merged
        THEN [result |-> "raise", tree |-> tree, branches |-> brs]
        ELSE Repository_delete_branch_remove(tree, brs, name, branch_node.path)

\* the outcome of delete_branch(name), and the tree and the dict after it
Repository_delete_branch(tree, cur, brs, name) ==
    LET branch_node == FindPath(tree, name)
    IN  IF name = "main"
        THEN [result |-> "raise", tree |-> tree, branches |-> brs]
        ELSE IF name = cur
        THEN [result |-> "raise", tree |-> tree, branches |-> brs]
        ELSE IF ~branch_node.found
        THEN [result |-> "raise", tree |-> tree, branches |-> brs]
        ELSE IF ~NodeAt(tree, branch_node.path).merged
        THEN [result |-> "raise", tree |-> tree, branches |-> brs]
        ELSE Repository_delete_branch_remove(tree, brs, name, branch_node.path)

\* the end of merge: the node found for the source branch, if any, is
\* marked as merged
Repository_merge_mark(tree, source_branch) ==
    LET b == FindPath(tree, source_branch)
    IN  IF b.found
        THEN ReplaceAt(tree, b.path, [NodeAt(tree, b.path) EXCEPT !.merged = TRUE])
        ELSE tree

RBranch(name) ==
    LET r == Repository_branch(branch_tree, current_branch, head, branches, name)
    IN  IF r.result = "raise" THEN UNCHANGED vars
        ELSE /\ branch_tree' = r.tree
             /\ branches' = r.branches
             /\ h_pre' = branch_tree
             /\ r_op' = [op |-> "branch", name |-> name, result |-> r.result]
             /\ r_src' = r_src \ {name}
             /\ UNCHANGED <<p_vars, m_vars, current_branch, head, staging_stack,
                            h_op, h_found, bt_vars, avl_vars, c_vars>>

RDeleteBranch(name) ==
    LET r == Repository_delete_branch(branch_tree, current_branch, branches, name)
    IN  IF r.result = "raise" THEN UNCHANGED vars
        ELSE /\ branch_tree' = r.tree
             /\ branches' = r.branches
             /\ h_pre' = branch_tree
             /\ r_op' = [op |-> "delete_branch", name |-> name,
                         result |-> r.result]
             /\ UNCHANGED <<p_vars, m_vars, current_branch, head, staging_stack, r_src,
                            h_op, h_found, bt_vars, avl_vars, c_vars>>

RCheckout(branch_name) ==
    IF branch_name \notin DOMAIN branches \/ staging_stack # <<>>
    THEN UNCHANGED vars
    ELSE /\ current_branch' = branch_name
         /\ head' = branches[branch_name]
         /\ staging_stack' = <<>>
         /\ h_pre' = branch_tree
         /\ r_op' = [op |-> "checkout", name |-> branch_name, result |-> "ok"]
         /\ UNCHANGED <<p_vars, m_vars, branch_tree, branches, r_src,
                        h_op, h_found, bt_vars, avl_vars, c_vars>>

\* add's first loop: pop every item, push on temp_stack those of another path
RECURSIVE Repository_add_drain(_, _, _)
Repository_add_drain(stack, temp_stack, filename) ==
    IF stack = <<>> THEN temp_stack
    ELSE LET item == Last(stack)
         IN  Repository_add_drain(Front(stack),
                 IF item.path # filename THEN Append(temp_stack, item)
                                         ELSE temp_stack,
                 filename)

\* add's second loop: pop temp_stack empty, pushing each item back
RECURSIVE Repository_add_restore(_, _)
Repository_add_restore(temp_stack, stack) ==
    IF temp_stack = <<>> THEN stack
    ELSE Repository_add_restore(Front(temp_stack),
                                Append(stack, Last(temp_stack)))

\* add that pushes the new entry on temp_stack's items without restoring them
Repository_add_staging_no_restore(stack, staged_file) ==
    Append(Repository_add_drain(stack, <<>>, staged_file.path), staged_file)

\* the staging stack after add(staged_file.path, ...)
Repository_add_staging(stack, staged_file) ==
    Append(Repository_add_restore(
               Repository_add_drain(stack, <<>>, staged_file.path), <<>>),
           staged_file)

\* add replaces the staged entry of the same path, puts the new entry on
\* top, and adds the file to the B-tree under the hash of its content
RAdd(filename, content) ==
    /\ bt_n < MaxAdds
    /\ staging_stack' =
           Repository_add_staging(staging_stack, StagedFile(filename, content))
    /\ DoInsert(Repository_calculate_file_hash(content), content)
    /\ bt_n' = bt_n + 1
    /\ h_pre' = branch_tree
    /\ r_op' = [op |-> "add", name |-> "", result |-> "ok"]
    /\ UNCHANGED <<p_vars, m_vars, branch_tree, current_branch, branches, head, r_src,
                   h_op, h_found, bt_load, avl_vars, c_vars>>

\* commit; permitted is what check_permission(author_email, "push") answers
RCommit(permitted) ==
    IF staging_stack = <<>> \/ ~permitted THEN UNCHANGED vars
    ELSE /\ head' = Repository_commit_id
         /\ branches' = DictSet(branches, current_branch, Repository_commit_id)
         /\ staging_stack' = <<>>
         /\ h_pre' = branch_tree
         /\ r_op' = [op |-> "commit", name |-> "", result |-> "ok"]
         /\ UNCHANGED <<p_vars, m_vars, branch_tree, current_branch, r_src,
                        h_op, h_found, bt_vars, avl_vars, c_vars>>

\* merge; permitted is what check_permission("admin@example.com", "merge")
\* answers
RMerge(source_branch, target_branch, permitted) ==
    IF \/ source_branch \notin DOMAIN branches
       \/ target_branch \notin DOMAIN branches
       \/ ~permitted
       \/ branches[source_branch] = 0
    THEN UNCHANGED vars
    ELSE /\ branches' = DictSet(branches, target_branch, Repository_commit_id)
         /\ head' = IF current_branch = target_branch
                    THEN Repository_commit_id ELSE head
         /\ branch_tree' = Repository_merge_mark(branch_tree, source_branch)
         /\ h_pre' = branch_tree
         /\ r_op' = [op |-> "merge", name |-> source_branch, result |-> "ok"]
         /\ r_src' = r_src \cup {source_branch}
         /\ UNCHANGED <<p_vars, m_vars, current_branch, staging_stack,
                        h_op, h_found, bt_vars, avl_vars, c_vars>>

NextRepo ==
    \/ \E name \in BranchNames : RBranch(name)
    \/ \E name \in BranchNames : RDeleteBranch(name)
    \/ \E name \in BranchNames : RCheckout(name)
    \/ \E filename \in Files, content \in Contents : RAdd(filename, content)
    \/ \E permitted \in BOOLEAN : RCommit(permitted)
    \/ \E source \in BranchNames, target \in BranchNames, permitted \in BOOLEAN :
           RMerge(source, target, permitted)

\* add on a repository without commits (head is None: status 'A', no
\* last_commit_id), over several paths and contents
StageAdd(filename, content) ==
    /\ bt_n < MaxStaged
    /\ staging_stack' =
           Repository_add_staging(staging_stack, StagedFile(filename, content))
    /\ DoInsert(Repository_calculate_file_hash(content), content)
    /\ bt_n' = bt_n + 1
    /\ h_pre' = branch_tree
    /\ r_op' = [op |-> "add", name |-> filename, result |-> "ok"]
    /\ UNCHANGED <<p_vars, m_vars, branch_tree, current_branch, branches, head, r_src,
                   h_op, h_found, bt_load, avl_vars, c_vars>>

NextStage ==
    \E filename \in StageFiles, content \in StageContents :
        StageAdd(filename, content)


(***************************************************************************)
(* RepositoryManager over LinkedList (src/git_sim/repository_manager.py,   *)
(* src/git_sim/data_structures.py).  A Repository is an object without     *)
(* __eq__, so == on it is identity: the model gives every constructed      *)
(* Repository an id of its own.  The manager reads nothing of a repository *)
(* but its name, so the rest of the object is left out here.               *)
(***************************************************************************)
RepoNames == {"alpha", "beta"}

\* the object Repository(name, path) constructs as the id-th of the run
Repository(id, name) == [id |-> id, name |-> name]

\* lambda r: r.name == name, a function object
Lambda(name) == [lambda |-> name]

\* index (1-based) of the first node whose data == data, 0 when there is none
LinkedList_index(list, data) ==
    LET hits == {i \in 1..Len(list) : list[i] = data}
    IN  IF hits = {} THEN 0 ELSE SetMin(hits)

\* returns the first node with node.data == data, or None
LinkedList_find(list, data) ==
    LET i == LinkedList_index(list, data)
    IN  IF i = 0 THEN None ELSE [data |-> list[i]]

LinkedList_append(list, data) == Append(list, data)

\* unlinks the first node with node.data == data
LinkedList_remove(list, data) ==
    LET i == LinkedList_index(list, data)
    IN  IF i = 0 THEN list ELSE PopAt(list, i - 1)

MInit ==
    /\ repositories = <<>>
    /\ current_repository = None
    /\ m_pre = None
    /\ m_op = [op |-> "none", name |-> "", result |-> "none"]
    /\ m_made = 0

create_repository(name) ==
    /\ m_made < MaxRepos
    /\ LET repo == Repository(m_made + 1, name)
       IN  /\ repositories' = LinkedList_append(repositories, repo)
           /\ current_repository' = repo
    /\ m_made' = m_made + 1
    /\ m_pre' = current_repository
    /\ m_op' = [op |-> "create", name |-> name, result |-> "ok"]
    /\ UNCHANGED <<p_vars, bt_vars, avl_vars, h_vars, c_vars, r_vars>>

switch_repository(name) ==
    /\ LET node == LinkedList_find(repositories, Lambda(name))
       IN  IF IsNone(node)
           THEN /\ m_op' = [op |-> "switch", name |-> name,
                            result |-> "ValueError"]
                /\ UNCHANGED current_repository
           ELSE /\ m_op' = [op |-> "switch", name |-> name, result |-> "ok"]
                /\ current_repository' = node.data
    /\ m_pre' = current_repository
    /\ UNCHANGED <<repositories, m_made>>
    /\ UNCHANGED <<p_vars, bt_vars, avl_vars, h_vars, c_vars, r_vars>>

delete_repository(name) ==
    /\ LET named == {i \in 1..Len(repositories) : repositories[i].name = name}
       IN  IF named = {}
           THEN /\ m_op' = [op |-> "delete", name |-> name,
                            result |-> "ValueError"]
                /\ UNCHANGED <<repositories, current_repository>>
           ELSE LET repo == repositories[SetMin(named)]
                IN  /\ repositories' = LinkedList_remove(repositories, repo)
                    /\ current_repository' =
                           IF ~IsNone(current_repository)
                              /\ current_repository.name = name
                           THEN None
                           ELSE current_repository
                    /\ m_op' = [op |-> "delete", name |-> name,
                                result |-> "ok"]
    /\ m_pre' = current_repository
    /\ UNCHANGED m_made
    /\ UNCHANGED <<p_vars, bt_vars, avl_vars, h_vars, c_vars, r_vars>>

NextMgr ==
    \/ \E name \in RepoNames : create_repository(name)
    \/ \E name \in RepoNames : switch_repository(name)
    \/ \E name \in RepoNames : delete_repository(name)

(***************************************************************************)
(* Repository: pull requests.  "PR-n" is modelled by its number n.  Of a   *)
(* PullRequest the model keeps status, reviewers and tags; titles, dates   *)
(* and commit lists are written once and read by no check.                 *)
(***************************************************************************)
Reviewers == {"ana"}
Tags == {"urgent"}
\* ids the calls are made with: the PRs that can exist and one that cannot
PRIds == 1..(MaxPRs + 1)

\* PullRequest(...) as create_pull_request constructs it
PullRequest(id) == [id |-> id, status |-> "open", reviewers |-> {}, tags |-> {}]

\* checks is what the branch and unique-commit checks of
\* create_pull_request come to; they read state this section leaves out
Repository_create_pull_request(map, queue, counter, checks) ==
    IF ~checks
    THEN [result |-> "ValueError", pr_map |-> map, pull_requests |-> queue,
          pr_counter |-> counter]
    ELSE LET pr == PullRequest(counter + 1)
         IN  [result |-> "ok", pr_map |-> DictSet(map, counter + 1, pr),
              pull_requests |-> Append(queue, counter + 1),
              pr_counter |-> counter + 1]

Repository_review_pull_request(map, pr_id, reviewer) ==
    IF pr_id \notin DOMAIN map
    THEN [result |-> "ValueError", pr_map |-> map]
    ELSE IF map[pr_id].status # "open"
    THEN [result |-> "ValueError", pr_map |-> map]
    ELSE [result |-> "ok",
          pr_map |-> [map EXCEPT ![pr_id].reviewers = @ \cup {reviewer}]]

\* approve_pull_request without the check of the status
Repository_approve_pull_request_any_status(map, pr_id) ==
    IF pr_id \notin DOMAIN map
    THEN [result |-> "ValueError", pr_map |-> map]
    ELSE [result |-> "ok", pr_map |-> [map EXCEPT ![pr_id].status = "approved"]]

Repository_approve_pull_request(map, pr_id) ==
    IF pr_id \notin DOMAIN map
    THEN [result |-> "ValueError", pr_map |-> map]
    ELSE IF map[pr_id].status # "open"
    THEN [result |-> "ValueError", pr_map |-> map]
    ELSE [result |-> "ok", pr_map |-> [map EXCEPT ![pr_id].status = "approved"]]

Repository_reject_pull_request(map, pr_id) ==
    IF pr_id \notin DOMAIN map
    THEN [result |-> "ValueError", pr_map |-> map]
    ELSE IF map[pr_id].status # "open"
    THEN [result |-> "ValueError", pr_map |-> map]
    ELSE [result |-> "ok", pr_map |-> [map EXCEPT ![pr_id].status = "rejected"]]

Repository_cancel_pull_request(map, pr_id) ==
    IF pr_id \notin DOMAIN map
    THEN [result |-> "ValueError", pr_map |-> map]
    ELSE IF map[pr_id].status # "open"
    THEN [result |-> "ValueError", pr_map |-> map]
    ELSE [result |-> "ok", pr_map |-> [map EXCEPT ![pr_id].status = "cancelled"]]

\* tag_pull_request does not look at the status
Repository_tag_pull_request(map, pr_id, tag) ==
    IF pr_id \notin DOMAIN map
    THEN [result |-> "ValueError", pr_map |-> map]
    ELSE [result |-> "ok", pr_map |-> [map EXCEPT ![pr_id].tags = @ \cup {tag}]]

PInit ==
    /\ pr_map = <<>>
    /\ pull_requests = <<>>
    /\ pr_counter = 0
    /\ pr_pre = <<>>
    /\ pr_op = [op |-> "none", id |-> 0, result |-> "none"]

\* what every pull-request call on one PR leaves behind
PRCall(op, pr_id, r) ==
    /\ pr_map' = r.pr_map
    /\ pr_pre' = pr_map
    /\ pr_op' = [op |-> op, id |-> pr_id, result |-> r.result]
    /\ UNCHANGED <<pull_requests, pr_counter>>
    /\ UNCHANGED <<m_vars, bt_vars, avl_vars, h_vars, c_vars, r_vars>>

PRCreate(checks) ==
    /\ pr_counter < MaxPRs
    /\ LET r == Repository_create_pull_request(pr_map, pull_requests,
                                               pr_counter, checks)
       IN  /\ pr_map' = r.pr_map
           /\ pull_requests' = r.pull_requests
           /\ pr_counter' = r.pr_counter
           /\ pr_op' = [op |-> "create", id |-> r.pr_counter,
                        result |-> r.result]
    /\ pr_pre' = pr_map
    /\ UNCHANGED <<m_vars, bt_vars, avl_vars, h_vars, c_vars, r_vars>>

PRReview(pr_id, reviewer) ==
    PRCall("review", pr_id,
           Repository_review_pull_request(pr_map, pr_id, reviewer))

PRApprove(pr_id) ==
    PRCall("approve", pr_id, Repository_approve_pull_request(pr_map, pr_id))

PRReject(pr_id) ==
    PRCall("reject", pr_id, Repository_reject_pull_request(pr_map, pr_id))

PRCancel(pr_id) ==
    PRCall("cancel", pr_id, Repository_cancel_pull_request(pr_map, pr_id))

PRTag(pr_id, tag) ==
    PRCall("tag", pr_id, Repository_tag_pull_request(pr_map, pr_id, tag))

\* clear_pull_requests empties the queue and the map; the counter stays
PRClear ==
    /\ pr_map' = <<>>
    /\ pull_requests' = <<>>
    /\ pr_pre' = pr_map
    /\ pr_op' = [op |-> "clear", id |-> 0, result |-> "ok"]
    /\ UNCHANGED pr_counter
    /\ UNCHANGED <<m_vars, bt_vars, avl_vars, h_vars, c_vars, r_vars>>

NextPR ==
    \/ \E checks \in BOOLEAN : PRCreate(checks)
    \/ \E pr_id \in PRIds, reviewer \in Reviewers : PRReview(pr_id, reviewer)
    \/ \E pr_id \in PRIds : PRApprove(pr_id)
    \/ \E pr_id \in PRIds : PRReject(pr_id)
    \/ \E pr_id \in PRIds : PRCancel(pr_id)
    \/ \E pr_id \in PRIds, tag \in Tags : PRTag(pr_id, tag)
    \/ PRClear

(***************************************************************************)
(* Repository: add_contributor and remove_contributor, which drive the     *)
(* contributor BST and the role manager's AVL tree together.  Emails are   *)
(* strings compared by the AVL tree; the model orders them as 1 < 2 < ...  *)
(***************************************************************************)
\* "admin@example.com", the user Repository.__init__ assigns "admin" to
AdminEmail == 1
\* every contributor is added with an email of their own, after the admin's
TeamEmail(name) == AdminEmail + name
\* RoleManager.roles as Repository.__init__ fills it
DefaultRoles == {"admin", "maintainer", "developer", "guest"}
\* roles add_contributor is called with; "owner" is not a defined role
TeamRoles == {"guest", "owner"}

\* RoleManager.user_roles once Repository.__init__ has run
Repository_init_user_roles == AVL_insert(None, AdminEmail, "admin")

\* returns the user_roles after the call and whether the call raised
RoleManager_assign_role(roles, user_roles, email, role_name) ==
    IF role_name \notin roles
    THEN [result |-> "ValueError", user_roles |-> user_roles]
    ELSE [result |-> "ok", user_roles |-> AVL_insert(user_roles, email, role_name)]

\* the state add_contributor leaves: the insert is done before assign_role
\* is called, and what assign_role raises is not caught
Repository_add_contributor(root, user_roles, name, email, role) ==
    LET root1 == IF IsNone(root)
                 THEN ContributorNode(name, email, role)
                 ELSE ContributorNode_insert(root, name, email, role)
        r == RoleManager_assign_role(DefaultRoles, user_roles, email, role)
    IN  [result |-> r.result, contributors |-> root1,
         user_roles |-> r.user_roles]

\* the object find returned, as it is once delete has run: in the
\* two-children case delete has written the successor's data into it
Repository_remove_contributor_found(root, name) ==
    LET contributor == ContributorNode_find(root, name)
    IN  IF ~IsNone(contributor.left) /\ ~IsNone(contributor.right)
        THEN ContributorNode_copy_successor(
                 contributor,
                 ContributorNode_get_min_value_node(contributor.right))
        ELSE contributor

Repository_remove_contributor(root, user_roles, name) ==
    IF IsNone(root) \/ IsNone(ContributorNode_find(root, name))
    THEN [result |-> FALSE, contributors |-> root, user_roles |-> user_roles]
    ELSE LET contributor == Repository_remove_contributor_found(root, name)
         IN  [result |-> TRUE,
              contributors |-> ContributorNode_delete(root, name),
              user_roles |-> AVL_delete(user_roles, contributor.email)]

\* node.value if node else None; the model writes "None" for None
RoleManager_get_user_role(user_roles, email) ==
    LET node == AVL_search(user_roles, email)
    IN  IF IsNone(node) THEN "None" ELSE node.value

\* the state after Repository.__init__: as Init, with the admin assigned
TeamInit ==
    /\ BTInit /\ HInit /\ CInit /\ RInit /\ MInit /\ PInit
    /\ avl_root = Repository_init_user_roles
    /\ avl_pre = None
    /\ avl_op = [op |-> "none", key |-> 0, value |-> 0]
    /\ avl_last = [key \in Emails |-> 0]
    /\ avl_asc = TRUE

\* a call that raises has inserted the contributor all the same
TeamAddContributor(name, role) ==
    /\ CSize(contributors) < MaxContrib
    /\ LET r == Repository_add_contributor(contributors, avl_root,
                                           name, TeamEmail(name), role)
       IN  /\ contributors' = r.contributors
           /\ avl_root' = r.user_roles
    /\ UNCHANGED <<c_pre, c_op, c_count, c_hist>>
    /\ UNCHANGED <<avl_pre, avl_op, avl_last, avl_asc>>
    /\ UNCHANGED <<p_vars, m_vars, bt_vars, h_vars, r_vars>>

\* a call that returns False changes nothing
TeamRemoveContributor(name) ==
    /\ LET r == Repository_remove_contributor(contributors, avl_root, name)
       IN  /\ r.result
           /\ contributors' = r.contributors
           /\ avl_root' = r.user_roles
    /\ UNCHANGED <<c_pre, c_op, c_count, c_hist>>
    /\ UNCHANGED <<avl_pre, avl_op, avl_last, avl_asc>>
    /\ UNCHANGED <<p_vars, m_vars, bt_vars, h_vars, r_vars>>

NextTeam ==
    \/ \E name \in Names, role \in TeamRoles : TeamAddContributor(name, role)
    \/ \E name \in Names : TeamRemoveContributor(name)

Init == BTInit /\ AVLInit /\ HInit /\ CInit /\ RInit /\ MInit /\ PInit

SpecBT == Init /\ [][NextBT]_vars

SpecAVL == Init /\ [][NextAVL]_vars

SpecHier == Init /\ [][NextHier]_vars

SpecContrib == Init /\ [][NextContrib]_vars

SpecNode == Init /\ [][NextNode]_vars

SpecRepo == Init /\ [][NextRepo]_vars

SpecMgr == Init /\ [][NextMgr]_vars

SpecTeam == TeamInit /\ [][NextTeam]_vars

SpecPR == Init /\ [][NextPR]_vars

SpecStage == Init /\ [][NextStage]_vars

(***************************************************************************)
(* Measures of a B-tree used by the properties                             *)
(***************************************************************************)
RECURSIVE Nodes(_, _)
\* every node of the tree with its depth, as a set of [node, depth]
Nodes(node, d) ==
    {[node |-> node, depth |-> d]} \cup
    UNION {Nodes(node.children[j], d + 1) : j \in 1..Len(node.children)}

RECURSIVE KeysOf(_)
\* the set of keys stored in a subtree
KeysOf(node) ==
    {node.keys[j] : j \in 1..Len(node.keys)} \cup
    UNION {KeysOf(node.children[j]) : j \in 1..Len(node.children)}

RECURSIVE InOrder(_)
RECURSIVE InOrderFrom(_, _)
\* the (key, value) pairs of a subtree, left to right
InOrderFrom(node, i) ==
    IF i > Len(node.keys) THEN <<>>
    ELSE <<<<node.keys[i], node.values[i]>>>>
         \o (IF node.leaf THEN <<>> ELSE InOrder(node.children[i + 1]))
         \o InOrderFrom(node, i + 1)

InOrder(node) ==
    (IF node.leaf \/ node.children = <<>> THEN <<>> ELSE InOrder(node.children[1]))
    \o InOrderFrom(node, 1)

Height(root) == SetMax({x.depth : x \in Nodes(root, 0)})
LeafDepths(root) == {x.depth : x \in {y \in Nodes(root, 0) : y.node.leaf}}
StrictlyIncreasing(keys) == \A j \in 1..(Len(keys) - 1) : keys[j] < keys[j + 1]
Stored(root, k) == k \in KeysOf(root)

(***************************************************************************)
(* B-tree properties                                                       *)
(***************************************************************************)

\* C2: with t = 3, after any sequence of insert and delete calls every
\* non-root node holds between 2 and 5 keys, the root between 0 and 5, every
\* node has as many values as keys, and every internal node has exactly
\* len(keys) + 1 children.
C2_KeyCounts ==
    \A x \in Nodes(file_btree, 0) :
        /\ Len(x.node.keys) <= 5
        /\ (x.depth > 0 => Len(x.node.keys) >= 2)
        /\ Len(x.node.values) = Len(x.node.keys)
        /\ (~x.node.leaf => Len(x.node.children) = Len(x.node.keys) + 1)

\* a delete has restructured a tree of three levels
C2_Witness ==
    /\ bt_op.op = "delete"
    /\ Height(bt_pre) = 2
    /\ Len(file_btree.keys) # Len(bt_pre.keys)
    /\ \E x \in Nodes(file_btree, 0) : x.depth = 1 /\ Len(x.node.keys) = 2

\* C3: after any sequence of insert and delete calls all leaf nodes are at
\* the same depth from the root.
C3_LeavesSameDepth == Cardinality(LeafDepths(file_btree)) = 1

\* the tree has grown to three levels and has shrunk back by a delete
C3_Witness ==
    /\ bt_op.op = "delete"
    /\ Height(bt_pre) = 2
    /\ Height(file_btree) = 1

\* C4 (as claimed): search(k) returns the value of the most recent
\* insert(k, v) for every key inserted and not deleted since.
C4_SearchLatest ==
    \A k \in AllKeys : bt_last[k] # 0 => BTree_search(file_btree, k) = bt_last[k]

\* C5 (as claimed): delete(k) of a key that is not stored leaves the output
\* of traverse_preorder() identical.
C5_AbsentDeletePreorder ==
    (bt_op.op = "delete" /\ ~Stored(bt_pre, bt_op.k))
        => BTree_traverse_preorder(file_btree, 0) = BTree_traverse_preorder(bt_pre, 0)

\* C5 (amended): delete(k) of a key that is not stored leaves the stored
\* (key, value) pairs and their left-to-right order identical; the nodes
\* they sit in, and so the depths traverse_preorder reports, may change.
C5_AbsentDeleteInOrder ==
    (bt_op.op = "delete" /\ ~Stored(bt_pre, bt_op.k))
        => InOrder(file_btree) = InOrder(bt_pre)

\* a delete of an absent key that merged or borrowed on its way down
C5_Witness ==
    /\ bt_op.op = "delete"
    /\ ~Stored(bt_pre, bt_op.k)
    /\ file_btree # bt_pre

\* C6 (as claimed): the keys within every node are strictly increasing, also
\* when insert is called with a key again.
C6_StrictKeys ==
    \A x \in Nodes(file_btree, 0) : StrictlyIncreasing(x.node.keys)

\* C7: for every internal node and every index i, all keys in the subtree
\* children[i] are <= keys[i] and all keys in children[i+1] are >= keys[i].
C7_Separators ==
    \A x \in Nodes(file_btree, 0) :
        ~x.node.leaf =>
            \A j \in 1..Len(x.node.keys) :
                /\ \A k \in KeysOf(x.node.children[j]) : k <= x.node.keys[j]
                /\ \A k \in KeysOf(x.node.children[j + 1]) : k >= x.node.keys[j]

\* a delete has replaced a key of an internal node, or moved a separator
C7_Witness ==
    /\ bt_op.op = "delete"
    /\ ~bt_pre.leaf /\ ~file_btree.leaf
    /\ file_btree.keys # bt_pre.keys

\* C8 (as claimed): after delete(k), search(k) returns absent and every
\* other stored key still returns the value search returned for it before.
C8_DeleteRemoves ==
    bt_op.op = "delete" =>
        /\ BTree_search(file_btree, bt_op.k) = 0
        /\ \A k \in KeysOf(bt_pre) \ {bt_op.k} :
               BTree_search(file_btree, k) = BTree_search(bt_pre, k)

AfterSixth == bt_load = [ord |-> "seq", n |-> 6] /\ bt_n = 0

\* C9 (as claimed): after the 6th insert of a1, a2, ... the root has one key
\* and two children of 2 keys each.
C9_SixthInsertTwoTwo ==
    AfterSixth =>
        /\ Len(file_btree.keys) = 1
        /\ Len(file_btree.children) = 2
        /\ \A j \in 1..Len(file_btree.children) : Len(file_btree.children[j].keys) = 2

\* C9 (amended): after the 6th insert of a1, a2, ... the root has one key
\* (a3) and two children, the left with 2 keys (a1, a2) and the right with
\* 3 keys (a4, a5, a6).
C9_SixthInsertTwoThree ==
    AfterSixth =>
        /\ file_btree.keys = <<3>>
        /\ Len(file_btree.children) = 2
        /\ file_btree.children[1].keys = <<1, 2>>
        /\ file_btree.children[2].keys = <<4, 5, 6>>

C9_Witness == AfterSixth /\ ~file_btree.leaf

\* C28: _insert_non_full is never invoked on a node holding 2t-1 keys,
\* neither the root nor a child it descends into, and the height of the
\* tree grows only by an insert that finds the root full, by one level.
C28_ProactiveSplit ==
    bt_op.op = "insert" =>
        LET calls == BTree_insert_calls(bt_pre, bt_op.k)
        IN  /\ \A j \in 1..Len(calls) : Len(calls[j].keys) < (2 * t) - 1
            /\ Height(file_btree) =
                   Height(bt_pre) + (IF Len(bt_pre.keys) = (2 * t) - 1
                                     THEN 1 ELSE 0)

\* the insert found the internal root full: the tree of two levels grew
\* to three, and _insert_non_full went down from the new root to a leaf
C28_Witness ==
    /\ bt_op.op = "insert"
    /\ Len(bt_pre.keys) = (2 * t) - 1
    /\ Height(bt_pre) = 1 /\ Height(file_btree) = 2
    /\ Len(file_btree.keys) = 1
    /\ Len(BTree_insert_calls(bt_pre, bt_op.k)) = 3

\* an insert split a full child below a root that had room
C28_WitnessChildSplit ==
    /\ bt_op.op = "insert"
    /\ Len(bt_pre.keys) < (2 * t) - 1
    /\ Len(file_btree.keys) = Len(bt_pre.keys) + 1
    /\ Height(file_btree) = Height(bt_pre)

\* C29: every non-root node into which _delete recurses holds at least t
\* keys at the moment of the recursive call, after a fill and in the
\* predecessor, successor and merge cases alike, so that no non-root node is
\* left with fewer than t-1 keys.
C29_DescendsIntoAtLeastT ==
    bt_op.op = "delete" =>
        LET calls == BTree__delete_calls(bt_pre, bt_op.k)
        IN  /\ \A j \in 1..Len(calls) : Len(calls[j].keys) >= t
            /\ \A x \in Nodes(file_btree, 0) :
                   x.depth > 0 => Len(x.node.keys) >= t - 1

\* the key was in an internal node below the root of a tree of three
\* levels: _delete went through a child of the root and on below it
C29_Witness ==
    /\ bt_op.op = "delete"
    /\ Height(bt_pre) = 2
    /\ Len(BTree__delete_calls(bt_pre, bt_op.k)) >= 2
    /\ \E j \in 1..Len(bt_pre.children) :
           \E i \in 1..Len(bt_pre.children[j].keys) :
               bt_pre.children[j].keys[i] = bt_op.k
    /\ bt_op.k \notin {bt_pre.keys[i] : i \in 1..Len(bt_pre.keys)}
    /\ Len(InOrder(file_btree)) = Len(InOrder(bt_pre)) - 1

\* C30: after a completed delete the root is never an internal node with
\* zero keys; the height falls by one when the deletion emptied a root that
\* has a child and is unchanged otherwise; the root has zero keys only when
\* the tree is a single empty leaf.
C30_RootCollapses ==
    /\ ~(~file_btree.leaf /\ Len(file_btree.keys) = 0)
    /\ Len(file_btree.keys) = 0 => file_btree = BTreeNode(TRUE)
    /\ bt_op.op = "delete" =>
           LET root1 == BTree__delete(bt_pre, bt_op.k)
           IN  Height(file_btree) =
                   Height(bt_pre) - (IF Len(root1.keys) = 0 /\ ~root1.leaf
                                     THEN 1 ELSE 0)

\* the root had one key and two minimal children: the merge emptied it and
\* its child became the root
C30_Witness ==
    /\ bt_op.op = "delete"
    /\ ~bt_pre.leaf /\ Len(bt_pre.keys) = 1
    /\ Height(file_btree) = Height(bt_pre) - 1
    /\ file_btree.leaf /\ Len(file_btree.keys) = (2 * t) - 2

\* the last key of a one-node tree was deleted
C30_WitnessEmptied ==
    /\ bt_op.op = "delete"
    /\ Len(bt_pre.keys) = 1 /\ bt_pre.leaf
    /\ file_btree = BTreeNode(TRUE)

(***************************************************************************)
(* AVL properties                                                          *)
(***************************************************************************)
RECURSIVE TrueHeight(_)
\* height measured on the tree's shape, not read from the cached field
TrueHeight(node) ==
    IF IsNone(node) THEN 0
    ELSE 1 + Max2(TrueHeight(node.left), TrueHeight(node.right))

RECURSIVE AVLNodes(_)
AVLNodes(node) ==
    IF IsNone(node) THEN {}
    ELSE {node} \cup AVLNodes(node.left) \cup AVLNodes(node.right)

Abs(x) == IF x < 0 THEN -x ELSE x

\* C1: starting from an empty AVLTree, after every completed insert or delete
\* every node satisfies |height(left) - height(right)| <= 1, heights
\* measured on the actual tree shape.
C1_Balanced ==
    \A n \in AVLNodes(avl_root) :
        Abs(TrueHeight(n.left) - TrueHeight(n.right)) <= 1

\* a delete that had to rotate: the node count fell by one and the root changed
C1_Witness ==
    /\ avl_op.op = "delete"
    /\ ~IsNone(avl_pre) /\ ~IsNone(avl_root)
    /\ Cardinality(AVLNodes(avl_root)) >= 4
    /\ avl_root.key # avl_pre.key
    /\ avl_op.key # avl_pre.key

(***************************************************************************)
(* Branch hierarchy properties                                             *)
(***************************************************************************)
\* the direct children of the node that remove_child was called on
ParentBefore == BranchNode_find_branch(h_pre, h_op.parent)
ChildrenNamed(node, name) ==
    {j \in 1..Len(node.children) : node.children[j].name = name}

\* C10: remove_child(name) returns true and detaches the child with its
\* subtree if and only if a direct child named name exists and is merged;
\* otherwise it returns false and leaves the hierarchy unchanged.  After a
\* true return find_branch(name) returns absent.
C10_RemoveChildGate ==
    h_op.op = "remove_child" =>
        LET kids == ChildrenNamed(ParentBefore, h_op.name)
            gate == \E j \in kids : ParentBefore.children[j].merged
        IN  /\ h_op.ret = gate
            /\ ~h_op.ret => branch_tree = h_pre
            /\ h_op.ret =>
                 /\ IsNone(BranchNode_find_branch(branch_tree, h_op.name))
                 /\ \A j \in kids :
                        NamesIn(branch_tree) =
                            NamesIn(h_pre) \ NamesIn(ParentBefore.children[j])
                 /\ Len(BranchNode_find_branch(branch_tree, h_op.parent).children)
                        = Len(ParentBefore.children) - 1

\* remove_child returned true for a merged child that had a subtree
C10_Witness ==
    /\ h_op.op = "remove_child"
    /\ h_op.ret
    /\ Cardinality(NamesIn(h_pre)) - Cardinality(NamesIn(branch_tree)) >= 2

\* remove_child returned false for a child that exists but is not merged
C10_WitnessRefused ==
    /\ h_op.op = "remove_child"
    /\ ~h_op.ret
    /\ ChildrenNamed(ParentBefore, h_op.name) # {}

(***************************************************************************)
(* Repository branch properties                                            *)
(***************************************************************************)
\* number of nodes of a branch tree
BSize(node) == Cardinality(PathsOf(node))

C11_WitnessDeep ==
    /\ current_branch = "main"
    /\ \E j \in 1..Len(branch_tree.children) : branch_tree.children[j].children # <<>>

\* C12: after any sequence of branch, checkout, commit, merge and
\* delete_branch calls, no two nodes of the branch tree have the same name.
C12_UniqueNames == Cardinality(NamesIn(branch_tree)) = BSize(branch_tree)

\* branch has added the last free name below a child of the root, from a
\* current branch that is not the root
C12_Witness ==
    /\ r_op.op = "branch"
    /\ current_branch # "main"
    /\ NamesIn(branch_tree) = BranchNames
    /\ Len(branch_tree.children) < NBranches

\* C13: the root is named "main" and is never removed: find_branch("main")
\* returns the root, and delete_branch("main") always raises and leaves
\* the hierarchy unchanged.
C13_MainStays ==
    /\ branch_tree.name = "main"
    /\ BranchNode_find_branch(branch_tree, "main") = branch_tree
    /\ LET r == Repository_delete_branch(branch_tree, current_branch,
                                         branches, "main")
       IN  r.result = "raise" /\ r.tree = branch_tree /\ r.branches = branches

\* a merge with "main" as its source has marked the root as merged, and
\* the current branch is another one
C13_Witness ==
    /\ r_op.op = "merge" /\ r_op.name = "main"
    /\ branch_tree.merged
    /\ current_branch # "main"
    /\ branch_tree.children # <<>>

\* C14: delete_branch(name) returns True only if a merge with name as its
\* source completed since the branch was created.
C14_DeleteOnlyMerged ==
    (r_op.op = "delete_branch" /\ r_op.result = "true") => r_op.name \in r_src

\* delete_branch returned True and the branch is gone from the tree
C14_Witness ==
    /\ r_op.op = "delete_branch" /\ r_op.result = "true"
    /\ r_op.name \in NamesIn(h_pre)
    /\ r_op.name \notin NamesIn(branch_tree)

RECURSIVE BPreorder(_)
RECURSIVE BPreorderFrom(_, _)
\* the nodes of a subtree: the node first, then its children's subtrees in
\* list order
BPreorder(node) == <<node>> \o BPreorderFrom(node.children, 1)
BPreorderFrom(kids, j) ==
    IF j > Len(kids) THEN <<>>
    ELSE BPreorder(kids[j]) \o BPreorderFrom(kids, j + 1)

\* C15: find_branch(name) returns the first node named name in depth-first
\* preorder of the subtree, and None exactly when no node of the subtree
\* has that name.
C15_FindFirstInPreorder ==
    ~IsNone(h_found.self) =>
        LET order == BPreorder(h_found.self)
            hits == {i \in 1..Len(order) : order[i].name = h_found.name}
        IN  IF hits = {} THEN IsNone(h_found.result)
            ELSE /\ ~IsNone(h_found.result)
                 /\ h_found.result = order[SetMin(hits)]

\* the name is held by a direct child and, earlier in preorder, by a node
\* further down, which is the one returned
C15_Witness ==
    /\ ~IsNone(h_found.self) /\ ~IsNone(h_found.result)
    /\ h_found.self.name # h_found.name
    /\ \E j \in 1..Len(h_found.self.children) :
           h_found.self.children[j].name = h_found.name
    /\ h_found.result.parent # h_found.self.name

(***************************************************************************)
(* Contributor index properties                                            *)
(***************************************************************************)
RECURSIVE CNodes(_)
\* every node of a contributor tree
CNodes(node) ==
    IF IsNone(node) THEN {}
    ELSE {node} \cup CNodes(node.left) \cup CNodes(node.right)

\* the names held in a contributor tree
CNames(node) == {n.name : n \in CNodes(node)}

RECURSIVE CCount(_, _)
\* how many nodes of the tree hold the triple x = (name, email, role)
CCount(node, x) ==
    IF IsNone(node) THEN 0
    ELSE (IF <<node.name, node.email, node.role>> = x THEN 1 ELSE 0)
         + CCount(node.left, x) + CCount(node.right, x)

Triples == {<<n, p[1], p[2]>> : n \in Names, p \in Profiles}

RECURSIVE Preorder(_)
\* node, then left subtree, then right subtree
Preorder(node) ==
    IF IsNone(node) THEN <<>>
    ELSE <<<<node.name, node.email, node.role>>>>
         \o Preorder(node.left) \o Preorder(node.right)

DistinctNames(s) == \A i, j \in 1..Len(s) : i # j => s[i][1] # s[j][1]

\* C16: after any sequence of insert and delete calls, names repeating or
\* not, every name in a node's left subtree is strictly less than the
\* node's name and every name in its right subtree is greater or equal.
C16_BSTOrder ==
    \A n \in CNodes(contributors) :
        /\ \A x \in CNames(n.left) : x < n.name
        /\ \A x \in CNames(n.right) : x >= n.name

\* a delete has just run on a tree that still holds a repeated name with
\* nodes on both sides of the root
C16_Witness ==
    /\ c_op.op = "delete"
    /\ ~IsNone(contributors)
    /\ ~IsNone(contributors.left) /\ ~IsNone(contributors.right)
    /\ \E n \in CNodes(contributors) : n.name \in CNames(n.right)

C18_Alphabetical ==
    LET all == Repository_list_contributors(contributors)
    IN  \A i, j \in 1..Len(all) : i < j => all[i][1] <= all[j][1]

\* C19: find(name) returns a node with that name for every name with an
\* entry left (inserted more often than deleted), and None for every name
\* with no entry left.
C19_FindMatchesCount ==
    \A name \in Names :
        LET r == Repository_find_contributor(contributors, name)
        IN  IF c_count[name] > 0
            THEN ~IsNone(r) /\ r.name = name
            ELSE IsNone(r)

\* a delete removed one of two entries of a name, which is still found
\* below the root, and another name has no entry
C19_Witness ==
    /\ c_op.op = "delete"
    /\ c_count[c_op.name] = 1
    /\ c_op.name \in CNames(c_pre)
    /\ ~IsNone(contributors) /\ contributors.name # c_op.name
    /\ \E name \in Names : c_count[name] = 0

\* C20: delete(name) on a tree containing name removes exactly one triple
\* of that name and changes no other triple; the result is None only when
\* the tree becomes empty.
C20_DeleteRemovesOne ==
    (c_op.op = "delete" /\ c_op.name \in CNames(c_pre)) =>
        /\ \E gone \in Triples :
               /\ gone[1] = c_op.name
               /\ \A x \in Triples :
                      CCount(contributors, x) =
                          CCount(c_pre, x) - (IF x = gone THEN 1 ELSE 0)
        /\ IsNone(contributors) <=> CSize(c_pre) = 1

\* the deleted node had two children and its successor, with an email of
\* its own, was below the right child
C20_Witness ==
    /\ c_op.op = "delete"
    /\ ~IsNone(c_pre) /\ c_pre.name = c_op.name
    /\ ~IsNone(c_pre.left) /\ ~IsNone(c_pre.right)
    /\ ~IsNone(c_pre.right.left)
    /\ c_pre.right.left.email # c_pre.email

\* C21: delete(name) for a name that is not in the tree returns the same
\* root with the tree unchanged: same shape, same entries, same list_all.
C21_AbsentDeleteUnchanged ==
    (c_op.op = "delete" /\ c_op.name \notin CNames(c_pre)) =>
        /\ contributors = c_pre
        /\ Repository_list_contributors(contributors)
               = Repository_list_contributors(c_pre)

\* the absent name lies between the names of a tree with nodes on both
\* sides of the root, so the search went below the root before it ended
C21_Witness ==
    /\ c_op.op = "delete"
    /\ c_op.name \notin CNames(c_pre)
    /\ ~IsNone(c_pre.left) /\ ~IsNone(c_pre.right)
    /\ c_pre.left.name < c_op.name /\ c_op.name < c_pre.name
    /\ contributors = c_pre

(***************************************************************************)
(* Role directory (AVL tree) properties                                    *)
(***************************************************************************)
\* C22: delete(key) for a key that is not in the tree leaves the tree
\* unchanged: same shape, keys, values and cached heights, and the same
\* traverse_postorder() output; so does delete on an empty tree.
C22_AbsentDeleteSame ==
    (avl_op.op = "delete" /\ avl_op.key \notin AVLKeys(avl_pre)) =>
        /\ avl_root = avl_pre
        /\ AVL_traverse_postorder(avl_root) = AVL_traverse_postorder(avl_pre)

\* the absent key lies between the root's left child and the root of a
\* tree of height three, so _delete walked down and back up through nodes
C22_Witness ==
    /\ avl_op.op = "delete"
    /\ avl_op.key \notin AVLKeys(avl_pre)
    /\ TrueHeight(avl_pre) >= 3
    /\ ~IsNone(avl_pre.left)
    /\ avl_pre.left.key < avl_op.key /\ avl_op.key < avl_pre.key
    /\ avl_root = avl_pre

\* delete was called on an empty tree
C22_WitnessEmpty ==
    avl_op.op = "delete" /\ IsNone(avl_pre) /\ IsNone(avl_root)

RECURSIVE WithValue(_, _, _)
\* the tree node with the value stored under key replaced, nothing else
WithValue(node, key, value) ==
    IF IsNone(node) THEN node
    ELSE [node EXCEPT !.value = IF node.key = key THEN value ELSE @,
                      !.left = WithValue(node.left, key, value),
                      !.right = WithValue(node.right, key, value)]

\* C23: insert(key, value) for a key already in the tree replaces that
\* key's value in place: the shape, the set of keys, every cached height
\* and the number of nodes are as before, and only that key's value differs.
C23_OverwriteInPlace ==
    (avl_op.op = "insert" /\ avl_op.key \in AVLKeys(avl_pre)) =>
        /\ avl_root = WithValue(avl_pre, avl_op.key, avl_op.value)
        /\ AVLKeys(avl_root) = AVLKeys(avl_pre)
        /\ Len(AVL_traverse_postorder(avl_root))
               = Len(AVL_traverse_postorder(avl_pre))

\* the key was overwritten with another value in a node with children
\* below the root of a tree of height three
C23_Witness ==
    /\ avl_op.op = "insert"
    /\ avl_op.key \in AVLKeys(avl_pre)
    /\ TrueHeight(avl_pre) >= 3
    /\ LET before == AVL_search(avl_pre, avl_op.key)
       IN  /\ before.value # avl_op.value
           /\ before.key # avl_pre.key
           /\ before.height > 1
    /\ avl_root # avl_pre

\* C24: search(k) yields the value of the most recent insert(k, v) for
\* every key inserted and not deleted since, and absent for every key never
\* inserted or deleted last, whatever rotations took place.
C24_SearchMostRecent ==
    \A key \in Emails :
        LET node == AVL_search(avl_root, key)
        IN  IF avl_last[key] # 0
            THEN ~IsNone(node) /\ node.key = key /\ node.value = avl_last[key]
            ELSE IsNone(node)

\* a delete rotated the root away; keys with different latest values are
\* found below the new root and the deleted key is absent
C24_Witness ==
    /\ avl_op.op = "delete"
    /\ avl_op.key \in AVLKeys(avl_pre)
    /\ ~IsNone(avl_root) /\ avl_root.key # avl_pre.key
    /\ avl_op.key # avl_pre.key
    /\ IsNone(AVL_search(avl_root, avl_op.key))
    /\ \E k1, k2 \in AVLKeys(avl_root) \ {avl_root.key} :
           avl_last[k1] # avl_last[k2]

\* C25: after any sequence of insert and delete calls the tree is a strict
\* binary search tree without duplicate keys: below every node, all keys
\* to the left are smaller than its key and all keys to the right larger.
C25_StrictBST ==
    /\ \A n \in AVLNodes(avl_root) :
           /\ \A k \in AVLKeys(n.left) : k < n.key
           /\ \A k \in AVLKeys(n.right) : k > n.key
    /\ Len(AVL_traverse_postorder(avl_root)) = Cardinality(AVLKeys(avl_root))

\* the root had two children and was deleted; its successor was below the
\* right child
C25_Witness ==
    /\ avl_op.op = "delete"
    /\ ~IsNone(avl_pre) /\ avl_pre.key = avl_op.key
    /\ ~IsNone(avl_pre.left) /\ ~IsNone(avl_pre.right)
    /\ ~IsNone(avl_pre.right.left)
    /\ avl_root.key = avl_pre.right.left.key

RECURSIVE MinKeys(_)
\* N(h): the fewest keys a tree of height h can hold
MinKeys(h) ==
    IF h = 0 THEN 0
    ELSE IF h = 1 THEN 1
    ELSE 1 + MinKeys(h - 1) + MinKeys(h - 2)

\* C26: a tree of height h holds at least N(h) keys, N(0) = 0, N(1) = 1,
\* N(h) = 1 + N(h-1) + N(h-2), after any sequence of inserts and deletes,
\* inserts in ascending order included.
C26_HeightLogarithmic ==
    /\ Cardinality(AVLKeys(avl_root)) >= MinKeys(TrueHeight(avl_root))
    /\ AVL_height(avl_root) = TrueHeight(avl_root)

\* every key was inserted in ascending order and the height is what a
\* balanced tree of that many keys has, not the length of a chain
C26_Witness ==
    /\ avl_asc
    /\ Cardinality(AVLKeys(avl_root)) = NEmails
    /\ MinKeys(TrueHeight(avl_root)) <= NEmails
    /\ MinKeys(TrueHeight(avl_root) + 1) > NEmails

(***************************************************************************)
(* Repository manager properties                                           *)
(***************************************************************************)
\* C27: switch_repository(name) sets current_repository to the managed
\* repository named name whenever one is managed, and raises ValueError,
\* leaving current_repository unchanged, only when none has that name.
C27_SwitchSelects ==
    m_op.op = "switch" =>
        IF \E i \in 1..Len(repositories) : repositories[i].name = m_op.name
        THEN /\ m_op.result = "ok"
             /\ ~IsNone(current_repository)
             /\ current_repository.name = m_op.name
             /\ \E i \in 1..Len(repositories) :
                    repositories[i] = current_repository
        ELSE /\ m_op.result = "ValueError"
             /\ current_repository = m_pre

\* switch_repository never returns normally
C27_SwitchAlwaysRaises ==
    m_op.op = "switch" =>
        m_op.result = "ValueError" /\ current_repository = m_pre

\* switch_repository raised for the name of a managed repository that is
\* not the current one
C27_WitnessRaised ==
    /\ m_op.op = "switch" /\ m_op.result = "ValueError"
    /\ \E i \in 1..Len(repositories) : repositories[i].name = m_op.name
    /\ ~IsNone(current_repository) /\ current_repository.name # m_op.name

RECURSIVE AVLInOrder(_)
\* the (key, value) pairs of a subtree, left to right
AVLInOrder(node) ==
    IF IsNone(node) THEN <<>>
    ELSE AVLInOrder(node.left) \o <<<<node.key, node.value>>>>
         \o AVLInOrder(node.right)

\* the subtrees the rotations are tried on: every node of the tree and of
\* the tree before the last call, and each of them with one side cut off
RotationInputs ==
    LET S == AVLNodes(avl_root) \cup AVLNodes(avl_pre)
    IN  S \cup {[n EXCEPT !.right = None] : n \in S}
          \cup {[n EXCEPT !.left = None] : n \in S}

HeightFromChildren(node) ==
    node.height = 1 + Max2(AVL_height(node.left), AVL_height(node.right))

\* C31: _left_rotate and _right_rotate keep the in-order (key, value)
\* sequence of the rotated subtree, change the child links of the two
\* exchanged nodes only, moving one grandchild subtree between them, and
\* leave both nodes with a cached height of 1 + max of their children's.
C31_RotationsPreserve ==
    \A n \in RotationInputs :
        /\ ~IsNone(n.left) =>
               LET x == AVL_right_rotate(n)
               IN  /\ AVLInOrder(x) = AVLInOrder(n)
                   /\ x.key = n.left.key /\ x.value = n.left.value
                   /\ x.left = n.left.left
                   /\ x.right.key = n.key /\ x.right.value = n.value
                   /\ x.right.left = n.left.right
                   /\ x.right.right = n.right
                   /\ HeightFromChildren(x.right) /\ HeightFromChildren(x)
        /\ ~IsNone(n.right) =>
               LET y == AVL_left_rotate(n)
               IN  /\ AVLInOrder(y) = AVLInOrder(n)
                   /\ y.key = n.right.key /\ y.value = n.right.value
                   /\ y.right = n.right.right
                   /\ y.left.key = n.key /\ y.left.value = n.value
                   /\ y.left.right = n.right.left
                   /\ y.left.left = n.left
                   /\ HeightFromChildren(y.left) /\ HeightFromChildren(y)

\* an insert rotated the root to the left and a grandchild subtree with
\* nodes in it changed sides
C31_Witness ==
    /\ avl_op.op = "insert"
    /\ ~IsNone(avl_pre) /\ ~IsNone(avl_pre.right)
    /\ avl_root.key = avl_pre.right.key
    /\ ~IsNone(avl_root.left) /\ ~IsNone(avl_root.left.right)
    /\ avl_root.left.key = avl_pre.key
    /\ \E n \in RotationInputs :
           ~IsNone(n.left) /\ ~IsNone(n.left.right) /\ IsNone(n.right)

\* C32: after every completed insert or delete the cached height of every
\* node equals the true height of its subtree, so the balance factor read
\* from cached heights is the real one.
C32_CachedHeights ==
    \A n \in AVLNodes(avl_root) :
        /\ n.height = TrueHeight(n)
        /\ AVLNode_get_balance(n) = TrueHeight(n.left) - TrueHeight(n.right)

\* a delete rotated a tree of height three: heights changed on the way
C32_Witness ==
    /\ avl_op.op = "delete"
    /\ ~IsNone(avl_pre) /\ ~IsNone(avl_root)
    /\ TrueHeight(avl_pre) >= 3
    /\ avl_root.key # avl_pre.key
    /\ avl_root.height = TrueHeight(avl_root)
    /\ \E n \in AVLNodes(avl_root) : n.height = 2

(***************************************************************************)
(* Contributors and their roles                                            *)
(***************************************************************************)
\* C33: remove_contributor(name) for a present contributor removes the
\* role assignment of that contributor's own email and leaves the role
\* assignment of every other contributor's email unchanged, whether the
\* contributor's node is a leaf or has one or two children.
C33_RemoveOwnRole ==
    \A name \in Names :
        LET r == Repository_remove_contributor(contributors, avl_root, name)
            c == Repository_find_contributor(contributors, name)
        IN  r.result =>
              /\ RoleManager_get_user_role(r.user_roles, c.email) = "None"
              /\ \A n \in CNodes(contributors) :
                     n.email # c.email =>
                         RoleManager_get_user_role(r.user_roles, n.email)
                             = RoleManager_get_user_role(avl_root, n.email)

\* C33 holds for a contributor whose node has at most one child
C33_RemoveOwnRoleNotTwoChildren ==
    \A name \in Names :
        LET r == Repository_remove_contributor(contributors, avl_root, name)
            c == Repository_find_contributor(contributors, name)
        IN  (r.result /\ (IsNone(c.left) \/ IsNone(c.right))) =>
              /\ RoleManager_get_user_role(r.user_roles, c.email) = "None"
              /\ \A n \in CNodes(contributors) :
                     n.email # c.email =>
                         RoleManager_get_user_role(r.user_roles, n.email)
                             = RoleManager_get_user_role(avl_root, n.email)

\* C34: add_contributor with a role that is not defined raises ValueError
\* and leaves the contributor index and the role directory unchanged.
C34_FailedAddUnchanged ==
    \A name \in Names, role \in TeamRoles :
        LET r == Repository_add_contributor(contributors, avl_root,
                                            name, TeamEmail(name), role)
        IN  /\ role \notin DefaultRoles => r.result = "ValueError"
            /\ r.result = "ValueError" =>
                   /\ r.contributors = contributors
                   /\ r.user_roles = avl_root

\* the part of C34 that holds: the call raises and the role directory is
\* as before
C34_FailedAddRolesUnchanged ==
    \A name \in Names, role \in TeamRoles :
        LET r == Repository_add_contributor(contributors, avl_root,
                                            name, TeamEmail(name), role)
        IN  role \notin DefaultRoles =>
                r.result = "ValueError" /\ r.user_roles = avl_root

(***************************************************************************)
(* Branch dictionary and current branch                                    *)
(***************************************************************************)
\* C35: after any sequence of branch, checkout, commit, merge and
\* delete_branch calls the keys of the branches dictionary are the branch
\* names present in the branch tree.
C35_DictMatchesTree == DOMAIN branches = NamesIn(branch_tree)

\* every branch of the tree has a key in the dictionary
C35_TreeNamesInDict == NamesIn(branch_tree) \subseteq DOMAIN branches

\* C36: after any sequence of branch, checkout, commit, merge and
\* delete_branch calls current_branch names a node that find_branch
\* locates in the branch tree.
C36_CurrentInTree == FindPath(branch_tree, current_branch).found

\* current_branch always has a key in the dictionary
C36_CurrentInDict == current_branch \in DOMAIN branches

(***************************************************************************)
(* Pull requests                                                           *)
(***************************************************************************)
StatusCalls == {"approve", "reject", "cancel"}
StatusAfter(op) ==
    CASE op = "approve" -> "approved"
      [] op = "reject" -> "rejected"
      [] op = "cancel" -> "cancelled"

\* C37: a pull request is created with status "open"; approve, reject and
\* cancel move an open one to "approved", "rejected" and "cancelled"; on a
\* pull request that is not open, approve, reject, cancel and review raise
\* ValueError and leave its status and reviewers as they were, and no call
\* changes a status that is not "open".
C37_StatusOneWay ==
    /\ (pr_op.op = "create" /\ pr_op.result = "ok")
        => /\ pr_op.id \in DOMAIN pr_map
           /\ pr_op.id \notin DOMAIN pr_pre
           /\ pr_map[pr_op.id].status = "open"
    /\ (pr_op.op \in StatusCalls /\ pr_op.id \in DOMAIN pr_pre
          /\ pr_pre[pr_op.id].status = "open")
        => /\ pr_op.result = "ok"
           /\ pr_map[pr_op.id].status = StatusAfter(pr_op.op)
    /\ (pr_op.op \in StatusCalls \cup {"review"} /\ pr_op.id \in DOMAIN pr_pre
          /\ pr_pre[pr_op.id].status # "open")
        => /\ pr_op.result = "ValueError"
           /\ pr_map[pr_op.id].status = pr_pre[pr_op.id].status
           /\ pr_map[pr_op.id].reviewers = pr_pre[pr_op.id].reviewers
    /\ \A id \in DOMAIN pr_pre \cap DOMAIN pr_map :
          pr_pre[id].status # "open" => pr_map[id].status = pr_pre[id].status

\* an approve raised on a rejected pull request that has a reviewer
C37_Witness ==
    /\ pr_op.op = "approve" /\ pr_op.result = "ValueError"
    /\ pr_op.id \in DOMAIN pr_pre
    /\ pr_pre[pr_op.id].status = "rejected"
    /\ pr_pre[pr_op.id].reviewers # {}
    /\ pr_map[pr_op.id].status = "rejected"

\* a review raised on a cancelled pull request
C37_WitnessReview ==
    /\ pr_op.op = "review" /\ pr_op.result = "ValueError"
    /\ pr_op.id \in DOMAIN pr_pre
    /\ pr_pre[pr_op.id].status = "cancelled"

(***************************************************************************)
(* Staging                                                                 *)
(***************************************************************************)
\* no two entries of the stack have the same path
StagedOnce(stack) ==
    \A i, j \in DOMAIN stack : stack[i].path = stack[j].path => i = j

\* what an add of r_op'.name leaves of the stack it found
AddStep ==
    r_op'.op = "add" =>
        /\ staging_stack' # <<>>
        /\ Last(staging_stack') = StagedFile(r_op'.name, bt_op'.v)
        /\ Front(staging_stack') =
               SelectSeq(staging_stack, LAMBDA item : item.path # r_op'.name)
        /\ StagedOnce(staging_stack')

\* C38: after every add the staging stack holds at most one StagedFile per
\* path; the add removes the earlier entry of its path, keeps the other
\* entries in their relative order, and puts the new entry on top.
C38_OneEntryPerPath == [][AddStep]_vars

\* four adds left three entries, "a.txt" on top over the two others, and
\* the content 1 that one of the adds staged is staged no more
C38_Witness ==
    /\ bt_n = 4
    /\ r_op = [op |-> "add", name |-> "a.txt", result |-> "ok"]
    /\ staging_stack = <<StagedFile("b.txt", 2), StagedFile("c.txt", 2),
                         StagedFile("a.txt", 2)>>
    /\ Stored(file_btree, 1)

(***************************************************************************)
(* _split_child                                                            *)
(***************************************************************************)
\* the (parent, index) pairs _split_child can be called with on a tree:
\* a node with a full child, and the new root that insert puts over a
\* full root
SplitCalls(root) ==
    {[parent |-> x.node, index |-> i] :
        x \in {y \in Nodes(root, 0) : ~y.node.leaf},
        i \in 0..(2 * t)}
    \cup {[parent |-> [BTreeNode(FALSE) EXCEPT !.children = <<root>>],
           index |-> 0]}

FullSplitCalls(root) ==
    {c \in SplitCalls(root) :
        /\ c.index < Len(c.parent.children)
        /\ Len(At(c.parent.children, c.index).keys) = (2 * t) - 1}

\* seq with x put in front of its element number i (0-based)
WithInserted(seq, i, x) == SubSeq(seq, 1, i) \o <<x>> \o SubSeq(seq, i + 1, Len(seq))

SplitAsStated(parent, index) ==
    LET child == At(parent.children, index)
        after == BTree_split_child(parent, index)
        left == At(after.children, index)
        right == At(after.children, index + 1)
    IN  /\ left.keys = SubSeq(child.keys, 1, t - 1)
        /\ left.values = SubSeq(child.values, 1, t - 1)
        /\ right.keys = SubSeq(child.keys, t + 1, (2 * t) - 1)
        /\ right.values = SubSeq(child.values, t + 1, (2 * t) - 1)
        /\ Len(left.keys) = t - 1 /\ Len(right.keys) = t - 1
        /\ ~child.leaf =>
              /\ left.children = SubSeq(child.children, 1, t)
              /\ right.children = SubSeq(child.children, t + 1, 2 * t)
              /\ Len(left.children) = t /\ Len(right.children) = t
        /\ after.keys = WithInserted(parent.keys, index, child.keys[t])
        /\ after.values = WithInserted(parent.values, index, child.values[t])
        /\ Len(after.children) = Len(parent.children) + 1
        /\ \A j \in 1..Len(parent.children) :
              j # index + 1 =>
                  after.children[IF j <= index THEN j ELSE j + 1] = parent.children[j]
        /\ left.keys \o <<child.keys[t]>> \o right.keys = child.keys
        /\ left.values \o <<child.values[t]>> \o right.values = child.values
        /\ left.children \o right.children = child.children
        /\ InOrder(after) = InOrder(parent)

\* C39: _split_child on a child with 2t-1 keys leaves it its first t-1
\* keys, creates at index+1 a sibling with the last t-1 keys (and, of an
\* internal child, the last t children, the first t staying), and inserts
\* the median key and value into the parent at index; every key and value
\* is kept once.
C39_SplitChild ==
    \A c \in FullSplitCalls(file_btree) : SplitAsStated(c.parent, c.index)

\* an insert split a full internal root: the new root holds the median
\* alone over the two halves, each with t children
C39_Witness ==
    /\ bt_op.op = "insert"
    /\ ~bt_pre.leaf /\ Len(bt_pre.keys) = (2 * t) - 1
    /\ file_btree.keys = <<bt_pre.keys[t]>>
    /\ Len(file_btree.children) = 2
    /\ file_btree.children[1].keys = SubSeq(bt_pre.keys, 1, t - 1)
    /\ Len(file_btree.children[1].children) = t
    /\ Len(file_btree.children[2].children) = t

\* a full leaf below a node that has room, as _insert_non_full finds it
C39_WitnessLeaf ==
    \E c \in FullSplitCalls(file_btree) :
        /\ c.parent = file_btree
        /\ At(c.parent.children, c.index).leaf
        /\ c.index > 0

====
